---- MODULE Spec2Model ----
(***************************************************************************)
(* QRtoPDF: the core of insert_qr_pdf.py (unit conversion, paper           *)
(* classification, rotation, page validation, overlay and insertion).      *)
(*                                                                         *)
(* Numbers.  Lengths in points are kept on a grid of GridPerPt = 12700     *)
(* steps per point, and user values (x, y, size) in hundredths of their    *)
(* unit.  On this grid 72/25.4 and 72/2.54 are the integers 360 and 3600   *)
(* per hundredth, so to_points is exact.  The A4 reference of the source,  *)
(* (595.275590551, 841.88976378), is 210 mm x 297 mm cut to 9 and 8        *)
(* decimals; it lies within 2e-10 pt of the grid values 7560000 and        *)
(* 10692000 used here.  LETTER (612, 792) is exact.                        *)
(*                                                                         *)
(* Strings that the code inspects character by character (the unit         *)
(* names) are sequences of one-character strings.                          *)
(***************************************************************************)
EXTENDS Integers, Sequences, FiniteSets, TLC

VARIABLES
    reader,          \* PdfReader(params.input_pdf).pages: <<[w, h, rotate]>>
    params,          \* the InsertQRParams of the running insertion
    pc,              \* position in insert_qr_into_pdf
    pages_to_check,  \* validate_pdf_pages: the pages not yet examined
    log,             \* the lines printed so far
    error,           \* the exception that ended the insertion, or NoError
    x_pt, y_pt, size_pt, \* [v |-> points] once converted, NoValue before
    qr_png,          \* the QR raster, or NoValue
    idx,             \* merge loop: last page index handled
    overlays,        \* every overlay build_overlay_pdf has produced
    writer,          \* PdfWriter pages added so far
    out_opened,      \* open(params.output_pdf, "wb") was executed
    out_file,        \* [pages |-> ...] written to params.output_pdf, or NoValue
    fn, fnArgs, fnRes, \* the pure function called, its arguments and its
                     \* result (records), NoValue before the call
    front,           \* the front-end (web /apply or GUI window) that builds
                     \* the InsertQRParams: its form and what it has done
    uploads,         \* web: storage/uploads/<token>.pdf, per token
    outputs,         \* web: storage/outputs/<token>_out.pdf, per token
    previews,        \* web: storage/previews/<token>_p1_z2.00.png, per token
    handlers,        \* web: the request each server thread is handling
    cleaners         \* web: the cleanup worker and the admin cleanup request

vars == <<reader, params, pc, pages_to_check, log, error, x_pt, y_pt, size_pt,
          qr_png, idx, overlays, writer, out_opened, out_file, fn, fnArgs, fnRes,
          front, uploads, outputs, previews, handlers, cleaners>>

coreVars == <<reader, params, pc, pages_to_check, log, error, x_pt, y_pt, size_pt,
              qr_png, idx, overlays, writer, out_opened, out_file>>

fnVars == <<fn, fnArgs, fnRes>>

frontVars == <<front>>

webVars == <<uploads, outputs, previews, handlers, cleaners>>

nonWebVars == <<coreVars, fnVars, frontVars>>

NoValue == [none |-> TRUE]
NoError == [kind |-> "none"]

----------------------------------------------------------------------------
(* Number representation *)

GridPerPt == 127 * 100

Pt(n) == n * GridPerPt

Abs(a) == IF a < 0 THEN -a ELSE a

----------------------------------------------------------------------------
(* Unit strings: str.lower() and str.strip() *)

UpperChars == <<"A","B","C","D","E","F","G","H","I","J","K","L","M",
                "N","O","P","Q","R","S","T","U","V","W","X","Y","Z">>
LowerChars == <<"a","b","c","d","e","f","g","h","i","j","k","l","m",
                "n","o","p","q","r","s","t","u","v","w","x","y","z">>
\* the ASCII whitespace str.strip() removes that a TLA+ string can hold
Whitespace == {" ", "\t", "\n", "\r", "\f"}

LowerChar(c) ==
    IF \E i \in 1..Len(UpperChars) : UpperChars[i] = c
    THEN LowerChars[CHOOSE i \in 1..Len(UpperChars) : UpperChars[i] = c]
    ELSE c

RECURSIVE StrLower(_)
StrLower(s) ==
    IF s = <<>> THEN <<>> ELSE <<LowerChar(Head(s))>> \o StrLower(Tail(s))

RECURSIVE LStrip(_)
LStrip(s) == IF s # <<>> /\ Head(s) \in Whitespace THEN LStrip(Tail(s)) ELSE s

RECURSIVE RStrip(_)
RStrip(s) ==
    IF s # <<>> /\ s[Len(s)] \in Whitespace
    THEN RStrip(SubSeq(s, 1, Len(s) - 1))
    ELSE s

StrStrip(s) == RStrip(LStrip(s))

S_pt == <<"p","t">>
S_pts == <<"p","t","s">>
S_point == <<"p","o","i","n","t">>
S_points == <<"p","o","i","n","t","s">>
S_mm == <<"m","m">>
S_cm == <<"c","m">>

----------------------------------------------------------------------------
(* to_points *)

PT_PER_INCH == 72
MM_PER_INCH_x10 == 254       \* 25.4
CM_PER_INCH_x100 == 254      \* 2.54

\* grid steps per hundredth of a point / of a millimetre / of a centimetre
PtFactor == GridPerPt \div 100
MmFactor == (PT_PER_INCH * GridPerPt * 10) \div (MM_PER_INCH_x10 * 100)
CmFactor == (PT_PER_INCH * GridPerPt * 100) \div (CM_PER_INCH_x100 * 100)

NormUnit(unit) == StrStrip(StrLower(unit))

CmForMm_to_points(value, unit) ==
    LET u == NormUnit(unit) IN
    IF u \in {S_pt, S_pts, S_point, S_points}
    THEN [ok |-> TRUE, v |-> value * PtFactor]
    ELSE IF u = S_mm THEN [ok |-> TRUE, v |-> value * CmFactor]
    ELSE IF u = S_cm THEN [ok |-> TRUE, v |-> value * CmFactor]
    ELSE [ok |-> FALSE, kind |-> "ValueError",
          what |-> "Unidad no soportada", unit |-> u]

Lenient_to_points(value, unit) ==
    LET u == NormUnit(unit) IN
    IF u = S_mm THEN [ok |-> TRUE, v |-> value * MmFactor]
    ELSE IF u = S_cm THEN [ok |-> TRUE, v |-> value * CmFactor]
    ELSE [ok |-> TRUE, v |-> value * PtFactor]

\* value is in hundredths of the unit; the result is on the point grid
to_points(value, unit) ==
    LET u == NormUnit(unit) IN
    IF u \in {S_pt, S_pts, S_point, S_points}
    THEN [ok |-> TRUE, v |-> value * PtFactor]
    ELSE IF u = S_mm THEN [ok |-> TRUE, v |-> value * MmFactor]
    ELSE IF u = S_cm THEN [ok |-> TRUE, v |-> value * CmFactor]
    ELSE [ok |-> FALSE, kind |-> "ValueError",
          what |-> "Unidad no soportada", unit |-> u]

----------------------------------------------------------------------------
(* from_points (gui_insert_qr.py), the inverse the GUI uses to show values *)

\* A value that is not a whole number of hundredths is the fraction num/den
\* in lowest terms, den > 0.
RECURSIVE GCD(_, _)
GCD(a, b) == IF b = 0 THEN a ELSE GCD(b, a % b)

Frac(n, d) ==
    LET g == GCD(Abs(n), d) IN [num |-> n \div g, den |-> d \div g]

\* MM_PER_INCH / PT_PER_INCH and CM_PER_INCH / PT_PER_INCH taken from grid
\* steps to hundredths of the unit; the GUI's three constants repeat the
\* core's
FromPtFactor == Frac(100, GridPerPt)
FromMmFactor == Frac(MM_PER_INCH_x10 * 10, PT_PER_INCH * GridPerPt)
FromCmFactor == Frac(CM_PER_INCH_x100, PT_PER_INCH * GridPerPt)

\* n * f for a fraction f in lowest terms, cancelling before multiplying
Scale(n, f) ==
    LET g == GCD(Abs(n), f.den) IN Frac((n \div g) * f.num, f.den \div g)

CmForMm_from_points(value_pt, unit) ==
    LET u == NormUnit(unit) IN
    IF u = S_pt THEN [ok |-> TRUE, q |-> Scale(value_pt, FromPtFactor)]
    ELSE IF u = S_mm THEN [ok |-> TRUE, q |-> Scale(value_pt, FromCmFactor)]
    ELSE IF u = S_cm THEN [ok |-> TRUE, q |-> Scale(value_pt, FromCmFactor)]
    ELSE [ok |-> FALSE, kind |-> "ValueError",
          what |-> "Unidad no soportada", unit |-> u]

\* value_pt is on the point grid; the result is in hundredths of the unit
from_points(value_pt, unit) ==
    LET u == NormUnit(unit) IN
    IF u = S_pt THEN [ok |-> TRUE, q |-> Scale(value_pt, FromPtFactor)]
    ELSE IF u = S_mm THEN [ok |-> TRUE, q |-> Scale(value_pt, FromMmFactor)]
    ELSE IF u = S_cm THEN [ok |-> TRUE, q |-> Scale(value_pt, FromCmFactor)]
    ELSE [ok |-> FALSE, kind |-> "ValueError",
          what |-> "Unidad no soportada", unit |-> u]

\* to_points of the value num/den: the product to_points forms, over den
ToPointsOfFrac(q, unit) ==
    LET r == to_points(q.num, unit) IN
    IF r.ok THEN [ok |-> TRUE, q |-> Frac(r.v, q.den)] ELSE r

----------------------------------------------------------------------------
(* Paper classification *)

\* 595.275590551 pt and 841.88976378 pt on the grid
A4_W == 7560000
A4_H == 10692000
LETTER_W == Pt(612)
LETTER_H == Pt(792)

LetterFirst_PAPER_SIZES_PT ==
    << [name |-> "LETTER", w_ref |-> LETTER_W, h_ref |-> LETTER_H],
       [name |-> "A4",     w_ref |-> A4_W,     h_ref |-> A4_H] >>

\* the dict in its insertion order
PAPER_SIZES_PT ==
    << [name |-> "A4",     w_ref |-> A4_W,     h_ref |-> A4_H],
       [name |-> "LETTER", w_ref |-> LETTER_W, h_ref |-> LETTER_H] >>

_close(a, b, tol) == Abs(a - b) <= tol

None == "None"

RECURSIVE RotatedFirst_ClassifyFrom(_, _, _, _)
RotatedFirst_ClassifyFrom(i, width_pt, height_pt, tol_pt) ==
    IF i > Len(PAPER_SIZES_PT) THEN None
    ELSE LET s == PAPER_SIZES_PT[i] IN
         IF _close(width_pt, s.h_ref, tol_pt) /\ _close(height_pt, s.w_ref, tol_pt)
         THEN s.name \o "(rotated)"
         ELSE IF _close(width_pt, s.w_ref, tol_pt) /\ _close(height_pt, s.h_ref, tol_pt)
         THEN s.name
         ELSE RotatedFirst_ClassifyFrom(i + 1, width_pt, height_pt, tol_pt)

RECURSIVE SwapBug_ClassifyFrom(_, _, _, _)
SwapBug_ClassifyFrom(i, width_pt, height_pt, tol_pt) ==
    IF i > Len(PAPER_SIZES_PT) THEN None
    ELSE LET s == PAPER_SIZES_PT[i] IN
         IF _close(width_pt, s.w_ref, tol_pt) /\ _close(height_pt, s.h_ref, tol_pt)
         THEN s.name
         ELSE IF _close(width_pt, s.h_ref, tol_pt) /\ _close(height_pt, s.h_ref, tol_pt)
         THEN s.name \o "(rotated)"
         ELSE SwapBug_ClassifyFrom(i + 1, width_pt, height_pt, tol_pt)

\* the loop over PAPER_SIZES_PT.items(), from entry i on
RECURSIVE ClassifyFrom(_, _, _, _)
ClassifyFrom(i, width_pt, height_pt, tol_pt) ==
    IF i > Len(PAPER_SIZES_PT) THEN None
    ELSE LET s == PAPER_SIZES_PT[i] IN
         IF _close(width_pt, s.w_ref, tol_pt) /\ _close(height_pt, s.h_ref, tol_pt)
         THEN s.name
         ELSE IF _close(width_pt, s.h_ref, tol_pt) /\ _close(height_pt, s.w_ref, tol_pt)
         THEN s.name \o "(rotated)"
         ELSE ClassifyFrom(i + 1, width_pt, height_pt, tol_pt)

classify_page_size(width_pt, height_pt, tol_pt) ==
    ClassifyFrom(1, width_pt, height_pt, tol_pt)

----------------------------------------------------------------------------
(* Page rotation *)

\* Python round(q / 90): nearest integer, ties to the even one
RoundHalfEven(rot, d) ==
    LET q == rot \div d
        r == rot % d
    IN  IF 2 * r < d THEN q
        ELSE IF 2 * r > d THEN q + 1
        ELSE IF q % 2 = 0 THEN q ELSE q + 1

\* rotate: [kind |-> "missing"], [kind |-> "int", v |-> n] or
\* [kind |-> "other"] (an object int() rejects)
NoFinalMod_rotation(rotate) ==
    LET rot0 == IF rotate.kind = "int" THEN rotate.v ELSE 0
        rot == rot0 % 360
    IN  IF rot \notin {0, 90, 180, 270}
        THEN RoundHalfEven(rot, 90) * 90
        ELSE rot

Truncating_rotation(rotate) ==
    LET rot0 == IF rotate.kind = "int" THEN rotate.v ELSE 0
        rot == rot0 % 360
    IN  IF rot \notin {0, 90, 180, 270}
        THEN ((rot \div 90) * 90) % 360
        ELSE rot

get_page_rotation_degrees(rotate) ==
    LET rot0 == IF rotate.kind = "int" THEN rotate.v ELSE 0
        rot == rot0 % 360
    IN  IF rot \notin {0, 90, 180, 270}
        THEN (RoundHalfEven(rot, 90) * 90) % 360
        ELSE rot

visible_dimensions(width_pt, height_pt, rotation_deg) ==
    IF rotation_deg \in {90, 270}
    THEN <<height_pt, width_pt>>
    ELSE <<width_pt, height_pt>>

----------------------------------------------------------------------------
(* Documents and requests of the insertion runs *)

MaxPages == 3

IntRotate(n) == [kind |-> "int", v |-> n]

\* pages a source document may hold: mediabox width and height, raw /Rotate
PageKinds ==
    { [w |-> A4_W,    h |-> A4_H,    rotate |-> [kind |-> "missing"]],
      [w |-> LETTER_W, h |-> LETTER_H, rotate |-> IntRotate(90)],
      [w |-> Pt(500), h |-> Pt(700), rotate |-> IntRotate(0)],
      [w |-> Pt(500), h |-> Pt(700), rotate |-> IntRotate(180)],
      [w |-> A4_H,    h |-> A4_W,    rotate |-> IntRotate(-90)] }

Documents == UNION { [1..n -> PageKinds] : n \in 1..MaxPages }

\* (unit, size_unit) pairs; units outside the accepted names included
UnitPairs ==
    { <<S_pt, S_pt>>,
      <<S_mm, S_cm>>,
      <<<<"\f", " ", "C", "m">>, S_points>>,
      <<<<"i", "n">>, S_pt>>,
      <<S_mm, <<"P", "x", " ">>>> }

\* (x_value, y_value, size_value) in hundredths of the unit
Placements == { <<5670, 1200, 11340>> }

\* the default tolerance with every unit pair and page number
Requests ==
    [ url : {"https://example.org/a"},
      page_number : 0..(MaxPages + 1),
      place : Placements,
      units : UnitPairs,
      tol_pt : {Pt(3)},
      paper_check : {"warn", "strict"},
      check_all_pages : BOOLEAN,
      paper_dim_mode : {"visible", "mediabox"} ]

\* requests for the runs that study validation: accepted units, every page
\* number, the default tolerance and one above the A4/LETTER height
\* difference (49.89 pt)
ValidateRequests ==
    [ url : {"https://example.org/a"},
      page_number : 0..(MaxPages + 1),
      place : Placements,
      units : {<<S_mm, S_cm>>},
      tol_pt : {Pt(3), Pt(50)},
      paper_check : {"warn", "strict"},
      check_all_pages : BOOLEAN,
      paper_dim_mode : {"visible", "mediabox"} ]

InsertQRParams(r) ==
    [ url |-> r.url, page_number |-> r.page_number,
      x_value |-> r.place[1], y_value |-> r.place[2], unit |-> r.units[1],
      size_value |-> r.place[3], size_unit |-> r.units[2],
      tol_pt |-> r.tol_pt, paper_check |-> r.paper_check,
      check_all_pages |-> r.check_all_pages,
      paper_dim_mode |-> r.paper_dim_mode ]

----------------------------------------------------------------------------
(* validate_pdf_pages *)

\* reader.pages[i] with Python indexing: 0-based, negative from the end
InRange(i, n) == -n <= i /\ i < n
PageAt(pages, i) == IF i >= 0 THEN pages[i + 1] ELSE pages[Len(pages) + i + 1]

Range(a, b) == [i \in 1..(b - a + 1) |-> a + i - 1]

OnlyTarget_PagesToCheck(pages, p) == <<p.page_number>>

Descending_PagesToCheck(pages, p) ==
    IF p.check_all_pages
    THEN [i \in 1..Len(pages) |-> Len(pages) + 1 - i]
    ELSE <<p.page_number>>

PagesToCheck(pages, p) ==
    IF p.check_all_pages THEN Range(1, Len(pages)) ELSE <<p.page_number>>

AlwaysRaw_CheckedDimensions(page, rot, p) == <<page.w, page.h>>

CheckedDimensions(page, rot, p) ==
    IF p.paper_dim_mode = "visible"
    THEN visible_dimensions(page.w, page.h, rot)
    ELSE <<page.w, page.h>>

RotationLine(pnum, rot) ==
    [tag |-> "[ADVERTENCIA]", about |-> "Rotate", page |-> pnum, rot |-> rot]

SizeLine(tag, pnum, chk, page, rot, p) ==
    [tag |-> tag, about |-> "size", page |-> pnum,
     w_chk |-> chk[1], h_chk |-> chk[2], w_mb |-> page.w, h_mb |-> page.h,
     rot |-> rot, mode |-> p.paper_dim_mode, tol |-> p.tol_pt]

InfoLine(pnum, classification, chk, page, rot, p) ==
    [tag |-> "[INFO]", about |-> "size", page |-> pnum,
     detected |-> classification,
     w_chk |-> chk[1], h_chk |-> chk[2], w_mb |-> page.w, h_mb |-> page.h,
     rot |-> rot, mode |-> p.paper_dim_mode, tol |-> p.tol_pt]

RotationAfterSize_ValidateOne(pages, pnum, p) ==
    LET page == PageAt(pages, pnum - 1)
        rot == get_page_rotation_degrees(page.rotate)
        chk == CheckedDimensions(page, rot, p)
        classification == classify_page_size(chk[1], chk[2], p.tol_pt)
        rotLines == IF rot # 0 THEN <<RotationLine(pnum, rot)>> ELSE <<>>
    IN  IF classification = None
        THEN IF p.paper_check = "strict"
             THEN [lines |-> <<>>,
                   raised |-> SizeLine("[ERROR]", pnum, chk, page, rot, p)]
             ELSE [lines |-> <<SizeLine("[ADVERTENCIA]", pnum, chk, page, rot, p)>>
                             \o rotLines,
                   raised |-> NoValue]
        ELSE [lines |-> <<InfoLine(pnum, classification, chk, page, rot, p)>> \o rotLines,
              raised |-> NoValue]

NeverRaise_ValidateOne(pages, pnum, p) ==
    LET page == PageAt(pages, pnum - 1)
        rot == get_page_rotation_degrees(page.rotate)
        chk == CheckedDimensions(page, rot, p)
        classification == classify_page_size(chk[1], chk[2], p.tol_pt)
        rotLines == IF rot # 0 THEN <<RotationLine(pnum, rot)>> ELSE <<>>
    IN  IF classification = None
        THEN [lines |-> rotLines \o
                        <<SizeLine("[ADVERTENCIA]", pnum, chk, page, rot, p)>>,
              raised |-> NoValue]
        ELSE [lines |-> rotLines \o <<InfoLine(pnum, classification, chk, page, rot, p)>>,
              raised |-> NoValue]

NoRotationLine_ValidateOne(pages, pnum, p) ==
    LET page == PageAt(pages, pnum - 1)
        rot == get_page_rotation_degrees(page.rotate)
        chk == CheckedDimensions(page, rot, p)
        classification == classify_page_size(chk[1], chk[2], p.tol_pt)
    IN  IF classification = None
        THEN IF p.paper_check = "strict"
             THEN [lines |-> <<>>,
                   raised |-> SizeLine("[ERROR]", pnum, chk, page, rot, p)]
             ELSE [lines |-> <<SizeLine("[ADVERTENCIA]", pnum, chk, page, rot, p)>>,
                   raised |-> NoValue]
        ELSE [lines |-> <<InfoLine(pnum, classification, chk, page, rot, p)>>,
              raised |-> NoValue]

TargetOnlyRaise_ValidateOne(pages, pnum, p) ==
    LET page == PageAt(pages, pnum - 1)
        rot == get_page_rotation_degrees(page.rotate)
        chk == CheckedDimensions(page, rot, p)
        classification == classify_page_size(chk[1], chk[2], p.tol_pt)
        rotLines == IF rot # 0 THEN <<RotationLine(pnum, rot)>> ELSE <<>>
    IN  IF classification = None
        THEN IF p.paper_check = "strict" /\ pnum = p.page_number
             THEN [lines |-> rotLines,
                   raised |-> SizeLine("[ERROR]", pnum, chk, page, rot, p)]
             ELSE [lines |-> rotLines \o
                             <<SizeLine("[ADVERTENCIA]", pnum, chk, page, rot, p)>>,
                   raised |-> NoValue]
        ELSE [lines |-> rotLines \o <<InfoLine(pnum, classification, chk, page, rot, p)>>,
              raised |-> NoValue]

WarnRaises_ValidateOne(pages, pnum, p) ==
    LET page == PageAt(pages, pnum - 1)
        rot == get_page_rotation_degrees(page.rotate)
        chk == CheckedDimensions(page, rot, p)
        classification == classify_page_size(chk[1], chk[2], p.tol_pt)
        rotLines == IF rot # 0 THEN <<RotationLine(pnum, rot)>> ELSE <<>>
    IN  IF classification = None
        THEN [lines |-> rotLines,
              raised |-> SizeLine("[ERROR]", pnum, chk, page, rot, p)]
        ELSE [lines |-> rotLines \o <<InfoLine(pnum, classification, chk, page, rot, p)>>,
              raised |-> NoValue]

\* one iteration of the loop over pages_to_check: what it prints and
\* whether it raises
ValidateOne(pages, pnum, p) ==
    LET page == PageAt(pages, pnum - 1)
        rot == get_page_rotation_degrees(page.rotate)
        chk == CheckedDimensions(page, rot, p)
        classification == classify_page_size(chk[1], chk[2], p.tol_pt)
        rotLines == IF rot # 0 THEN <<RotationLine(pnum, rot)>> ELSE <<>>
    IN  IF classification = None
        THEN IF p.paper_check = "strict"
             THEN [lines |-> rotLines,
                   raised |-> SizeLine("[ERROR]", pnum, chk, page, rot, p)]
             ELSE [lines |-> rotLines \o
                             <<SizeLine("[ADVERTENCIA]", pnum, chk, page, rot, p)>>,
                   raised |-> NoValue]
        ELSE [lines |-> rotLines \o <<InfoLine(pnum, classification, chk, page, rot, p)>>,
              raised |-> NoValue]

----------------------------------------------------------------------------
(* generate_qr_png_bytes, build_overlay_pdf *)

\* deterministic in the text and the fixed encoding parameters
generate_qr_png_bytes(url) ==
    [data |-> url, error_correction |-> "M", box_size |-> 10, border |-> 2]

build_overlay_pdf(page_width_pt, page_height_pt, png, x, y, size) ==
    [pagesize |-> <<page_width_pt, page_height_pt>>,
     image |-> png, x |-> x, y |-> y, width |-> size, height |-> size]

VisibleSize_OverlayFor(page, png, x, y, size) ==
    LET d == visible_dimensions(page.w, page.h,
                                get_page_rotation_degrees(page.rotate))
    IN  build_overlay_pdf(d[1], d[2], png, x, y, size)

\* the overlay insert_qr_into_pdf builds for the target page
OverlayFor(page, png, x, y, size) ==
    build_overlay_pdf(page.w, page.h, png, x, y, size)

----------------------------------------------------------------------------
(* insert_qr_into_pdf *)

ZeroAllowed_PageOutOfRange(page_number, n) == page_number < 0 \/ page_number > n

PageOutOfRange(page_number, n) == page_number < 1 \/ page_number > n

FromTarget_IsTarget(i, page_number) == i >= page_number

IsTarget(i, page_number) == i = page_number

Fail(e) ==
    /\ pc' = "failed"
    /\ error' = e

UnitsFirst_Start ==
    /\ pc = "start"
    /\ writer' = <<>>
    /\ LET cx == to_points(params.x_value, params.unit)
           cs == to_points(params.size_value, params.size_unit)
       IN  IF ~cx.ok \/ ~cs.ok
           THEN /\ Fail(IF ~cx.ok THEN cx ELSE cs)
                /\ UNCHANGED pages_to_check
           ELSE IF PageOutOfRange(params.page_number, Len(reader))
           THEN /\ Fail([kind |-> "ValueError", what |-> "page_number fuera de rango",
                         pages |-> Len(reader)])
                /\ UNCHANGED pages_to_check
           ELSE /\ pc' = "validate"
                /\ pages_to_check' = PagesToCheck(reader, params)
                /\ UNCHANGED error
    /\ UNCHANGED <<reader, params, log, x_pt, y_pt, size_pt, qr_png, idx,
                   overlays, out_opened, out_file, fnVars,
                   frontVars, webVars>>

\* lines 199-205: open the source, create the writer, check the page number
Start ==
    /\ pc = "start"
    /\ writer' = <<>>
    /\ IF PageOutOfRange(params.page_number, Len(reader))
       THEN /\ Fail([kind |-> "ValueError", what |-> "page_number fuera de rango",
                     pages |-> Len(reader)])
            /\ UNCHANGED pages_to_check
       ELSE /\ pc' = "validate"
            /\ pages_to_check' = PagesToCheck(reader, params)
            /\ UNCHANGED error
    /\ UNCHANGED <<reader, params, log, x_pt, y_pt, size_pt, qr_png, idx,
                   overlays, out_opened, out_file, fnVars,
                   frontVars, webVars>>

\* lines 154-195: one page of validate_pdf_pages; after the last one the
\* validator returns
ValidatePage ==
    /\ pc = "validate"
    /\ pages_to_check # <<>>
    /\ LET pnum == Head(pages_to_check) IN
       IF ~InRange(pnum - 1, Len(reader))
       THEN /\ Fail([kind |-> "IndexError", page |-> pnum])
            /\ UNCHANGED <<log, pages_to_check>>
       ELSE LET v == ValidateOne(reader, pnum, params) IN
            /\ log' = log \o v.lines
            /\ IF v.raised # NoValue
               THEN /\ Fail([kind |-> "ValueError", what |-> "paper", msg |-> v.raised])
                    /\ UNCHANGED pages_to_check
               ELSE /\ pages_to_check' = Tail(pages_to_check)
                    /\ pc' = IF Tail(pages_to_check) = <<>> THEN "convert" ELSE "validate"
                    /\ UNCHANGED error
    /\ UNCHANGED <<reader, params, x_pt, y_pt, size_pt, qr_png, idx, overlays,
                   writer, out_opened, out_file, fnVars,
                   frontVars, webVars>>

\* lines 211-213
ConvertUnits ==
    /\ pc = "convert"
    /\ LET cx == to_points(params.x_value, params.unit)
           cy == to_points(params.y_value, params.unit)
           cs == to_points(params.size_value, params.size_unit)
       IN  IF ~cx.ok
           THEN Fail(cx) /\ UNCHANGED <<x_pt, y_pt, size_pt>>
           ELSE IF ~cy.ok
           THEN Fail(cy) /\ x_pt' = [v |-> cx.v] /\ UNCHANGED <<y_pt, size_pt>>
           ELSE IF ~cs.ok
           THEN Fail(cs) /\ x_pt' = [v |-> cx.v] /\ y_pt' = [v |-> cy.v]
                /\ UNCHANGED size_pt
           ELSE /\ x_pt' = [v |-> cx.v] /\ y_pt' = [v |-> cy.v]
                /\ size_pt' = [v |-> cs.v]
                /\ pc' = "genqr"
                /\ UNCHANGED error
    /\ UNCHANGED <<reader, params, pages_to_check, log, qr_png, idx, overlays,
                   writer, out_opened, out_file, fnVars,
                   frontVars, webVars>>

RewritingUnits_GenerateQR ==
    /\ pc = "genqr"
    /\ qr_png' = generate_qr_png_bytes(params.url)
    /\ idx' = 0
    /\ pc' = "merge"
    /\ params' = [params EXCEPT !.unit = S_pt, !.size_unit = S_pt]
    /\ UNCHANGED <<reader, pages_to_check, log, error, x_pt, y_pt,
                   size_pt, overlays, writer, out_opened, out_file, fnVars,
                   frontVars, webVars>>

\* line 216
GenerateQR ==
    /\ pc = "genqr"
    /\ qr_png' = generate_qr_png_bytes(params.url)
    /\ idx' = 0
    /\ pc' = "merge"
    /\ UNCHANGED <<reader, params, pages_to_check, log, error, x_pt, y_pt,
                   size_pt, overlays, writer, out_opened, out_file, fnVars,
                   frontVars, webVars>>

\* lines 219-230: one iteration of the loop over reader.pages
MergePage ==
    /\ pc = "merge"
    /\ idx < Len(reader)
    /\ LET i == idx + 1
           page == reader[i]
       IN  /\ idx' = i
           /\ IF IsTarget(i, params.page_number)
              THEN LET ov == OverlayFor(page, qr_png, x_pt.v, y_pt.v, size_pt.v) IN
                   /\ overlays' = Append(overlays, ov)
                   /\ writer' = Append(writer, [src |-> i, page |-> page,
                                                merged |-> <<ov>>])
              ELSE /\ UNCHANGED overlays
                   /\ writer' = Append(writer, [src |-> i, page |-> page,
                                                merged |-> <<>>])
           /\ pc' = IF i = Len(reader) THEN "write" ELSE "merge"
    /\ UNCHANGED <<reader, params, pages_to_check, log, error, x_pt, y_pt,
                   size_pt, qr_png, out_opened, out_file, fnVars,
                   frontVars, webVars>>

\* lines 232-233
WriteOutput ==
    /\ pc = "write"
    /\ out_opened' = TRUE
    /\ out_file' = [pages |-> writer]
    /\ pc' = "done"
    /\ UNCHANGED <<reader, params, pages_to_check, log, error, x_pt, y_pt,
                   size_pt, qr_png, idx, overlays, writer, fnVars,
                   frontVars, webVars>>

NoFront == [kind |-> "none"]

\* no front-end: insert_qr_into_pdf is called directly
FrontIdle == front = NoFront

\* no web storage, no server thread
WebOff ==
    /\ uploads = <<>>
    /\ outputs = <<>>
    /\ previews = <<>>
    /\ handlers = <<>>
    /\ cleaners = <<>>

FnIdle ==
    /\ fn = "none"
    /\ fnArgs = NoValue
    /\ fnRes = NoValue

Init ==
    /\ reader \in Documents
    /\ \E r \in Requests : params = InsertQRParams(r)
    /\ pc = "start"
    /\ pages_to_check = <<>>
    /\ log = <<>>
    /\ error = NoError
    /\ x_pt = NoValue /\ y_pt = NoValue /\ size_pt = NoValue
    /\ qr_png = NoValue
    /\ idx = 0
    /\ overlays = <<>>
    /\ writer = <<>>
    /\ out_opened = FALSE
    /\ out_file = NoValue
    /\ FnIdle
    /\ FrontIdle
    /\ WebOff

Next ==
    \/ Start
    \/ ValidatePage
    \/ ConvertUnits
    \/ GenerateQR
    \/ MergePage
    \/ WriteOutput

Spec == Init /\ [][Next]_vars

\* the same runs over ValidateRequests: SpecValidate
InitValidate ==
    /\ reader \in Documents
    /\ \E r \in ValidateRequests : params = InsertQRParams(r)
    /\ pc = "start"
    /\ pages_to_check = <<>>
    /\ log = <<>>
    /\ error = NoError
    /\ x_pt = NoValue /\ y_pt = NoValue /\ size_pt = NoValue
    /\ qr_png = NoValue
    /\ idx = 0
    /\ overlays = <<>>
    /\ writer = <<>>
    /\ out_opened = FALSE
    /\ out_file = NoValue
    /\ FnIdle
    /\ FrontIdle
    /\ WebOff

SpecValidate == InitValidate /\ [][Next]_vars

----------------------------------------------------------------------------
(* The pure functions called on their own, one call per behaviour: SpecFn *)

MaxRotate == 400

\* half the A4/LETTER height difference: from this tolerance on one height
\* is within tolerance of both references
HeightGap == A4_H - LETTER_H
HalfHeightGap == HeightGap \div 2

Dims ==
    { A4_W, A4_H, LETTER_W, LETTER_H, Pt(500), Pt(700),
      A4_W + Pt(3), A4_W + Pt(3) + 1, A4_H - Pt(3), A4_H - Pt(3) - 1,
      Pt(604), LETTER_H + HalfHeightGap, Pt(718), LETTER_W + Pt(3) }

Tols ==
    { -Pt(1), 0, Pt(3), HalfHeightGap - 1, HalfHeightGap, Pt(25),
      HeightGap - 1, HeightGap, Pt(100), Pt(130) }

RotateInputs ==
    { IntRotate(n) : n \in (-MaxRotate)..MaxRotate }
        \cup { [kind |-> "missing"], [kind |-> "other"] }

\* hundredths of a unit
Values == { -1050, 0, 1, 250, 5670, 21000 }

UnitStrings ==
    { S_pt, S_mm, S_cm, S_pts, S_point, S_points,
      <<"M", "M">>, <<" ", "c", "m", "\n">>, <<"P", "T">>,
      <<"i", "n">>, <<>>, <<"m", " ", "m">>, <<"p", "x">>, <<"I", "n", "c", "h", " ">> }

CallClassify ==
    /\ pc = "off"
    /\ fn = "none"
    /\ \E w \in Dims, h \in Dims, tol \in Tols :
        /\ fn' = "classify_page_size"
        /\ fnArgs' = [width_pt |-> w, height_pt |-> h, tol_pt |-> tol]
        /\ fnRes' = [classification |-> classify_page_size(w, h, tol)]
        /\ UNCHANGED <<coreVars, frontVars, webVars>>

CallRotation ==
    /\ pc = "off"
    /\ fn = "none"
    /\ \E r \in RotateInputs :
        /\ fn' = "get_page_rotation_degrees"
        /\ fnArgs' = [rotate |-> r]
        /\ fnRes' = [degrees |-> get_page_rotation_degrees(r)]
        /\ UNCHANGED <<coreVars, frontVars, webVars>>

CallToPoints ==
    /\ pc = "off"
    /\ fn = "none"
    /\ \E v \in Values, u \in UnitStrings :
        /\ fn' = "to_points"
        /\ fnArgs' = [value |-> v, unit |-> u]
        /\ fnRes' = to_points(v, u)
        /\ UNCHANGED <<coreVars, frontVars, webVars>>

\* lengths on the point grid, whole and fractional hundredths of a unit;
\* those that are no multiple of 3600 are kept small enough for 32 bits
PointValues ==
    { 0, 1, -7, Pt(10) + 1, Pt(36), -Pt(36) - 360, 596000,
      A4_W, LETTER_H, Pt(500) + 7200 }

CallFromPoints ==
    /\ pc = "off"
    /\ fn = "none"
    /\ \E v \in PointValues, u \in UnitStrings :
        /\ fn' = "from_points"
        /\ fnArgs' = [value_pt |-> v, unit |-> u]
        /\ fnRes' = from_points(v, u)
        /\ UNCHANGED <<coreVars, frontVars, webVars>>

InitFn ==
    /\ reader = <<>>
    /\ params = NoValue
    /\ pc = "off"
    /\ pages_to_check = <<>>
    /\ log = <<>>
    /\ error = NoError
    /\ x_pt = NoValue /\ y_pt = NoValue /\ size_pt = NoValue
    /\ qr_png = NoValue
    /\ idx = 0
    /\ overlays = <<>>
    /\ writer = <<>>
    /\ out_opened = FALSE
    /\ out_file = NoValue
    /\ FnIdle
    /\ FrontIdle
    /\ WebOff

NextFn ==
    \/ CallClassify
    \/ CallRotation
    \/ CallToPoints
    \/ CallFromPoints

SpecFn == InitFn /\ [][NextFn]_vars

\* insertion runs and single calls side by side
InitAll == Init \/ InitFn

NextAll == Next \/ NextFn

SpecAll == InitAll /\ [][NextAll]_vars

----------------------------------------------------------------------------
(* The front-ends building the InsertQRParams: /apply of app.py and          *)
(* MainWindow of gui_insert_qr.py, each followed by the insertion: SpecFront *)

\* fitz page.rect: the page as displayed, its /Rotate applied (the pages of
\* the model carry no crop box and only multiples of 90 here)
PageRect(page) ==
    visible_dimensions(page.w, page.h, get_page_rotation_degrees(page.rotate))

\* fitz Document.load_page(page_id): a negative page_id counts from the end,
\* one beyond the last page raises
LoadPage(pages, page_id) ==
    IF page_id >= Len(pages)
    THEN [ok |-> FALSE, kind |-> "ValueError", what |-> "page not in document"]
    ELSE [ok |-> TRUE, page |-> pages[(page_id % Len(pages)) + 1]]

get_page_visible_size_pt(pages, page_1based) ==
    LET l == LoadPage(pages, page_1based - 1) IN
    IF l.ok
    THEN [ok |-> TRUE, w |-> PageRect(l.page)[1], h |-> PageRect(l.page)[2]]
    ELSE l

\* a length in points handed over as a value with unit "pt": hundredths of
\* a point (exact for the lengths of FrontPageKinds and FrontPlacements)
InPt(grid) == grid \div PtFactor

\* pages whose sides are whole hundredths of a point
FrontPageKinds == { k \in PageKinds : k.w % PtFactor = 0 /\ k.h % PtFactor = 0 }

FrontDocuments == UNION { [1..n -> FrontPageKinds] : n \in 1..MaxPages }

\* (x, y, size) in hundredths of the unit: whole hundredths of a point in
\* pt, mm and cm
FrontPlacements == { <<1270, 2540, 254>> }

WebUnitPairs ==
    { <<S_pt, S_pt>>, <<<<" ", "M", "M">>, S_cm>>, <<<<"i", "n">>, S_pt>>,
      <<S_mm, <<"p", "x">>>> }

\* the combo boxes offer cm, mm, pt
GuiUnitPairs == { <<S_pt, S_pt>>, <<S_mm, S_cm>>, <<S_cm, S_mm>> }

\* the fields of the /apply request
WebForms ==
    [ url : {"https://example.org/a"},
      page : 0..(MaxPages + 1),
      place : FrontPlacements,
      units : WebUnitPairs,
      tol_pt : {Pt(3)},
      paper_check : {"warn", "strict"},
      check_all_pages : {FALSE},
      paper_dim_mode : {"visible"} ]

\* the widgets of the window the user sets before pressing the button, and
\* whether PyMuPDF could be imported (fitz is None when it could not); the
\* page spin box and the cached page height change with the actions
GuiForms ==
    [ url : {"https://example.org/a"},
      fitz : BOOLEAN,
      place : FrontPlacements,
      units : GuiUnitPairs,
      visual_coords_chk : BOOLEAN,
      tol_pt : {Pt(3)},
      paper_check : {"warn", "strict"},
      check_all_pages : {FALSE},
      paper_dim_mode : {"visible"} ]

\* lines 485-537 of app.py up to the call of insert_qr_into_pdf; an
\* exception here is not caught by the handler
WebApply ==
    /\ front.kind = "web"
    /\ front.stage = "form"
    /\ pc = "form"
    /\ LET f == front.form
           unit == StrLower(StrStrip(f.units[1]))
           size_unit == StrLower(StrStrip(f.units[2]))
           sz == get_page_visible_size_pt(reader, f.page)
           cx == to_points(f.place[1], unit)
           cy == to_points(f.place[2], unit)
           cs == to_points(f.place[3], size_unit)
       IN  IF ~sz.ok \/ ~cx.ok \/ ~cy.ok \/ ~cs.ok
           THEN /\ Fail(IF ~sz.ok THEN sz ELSE IF ~cx.ok THEN cx
                        ELSE IF ~cy.ok THEN cy ELSE cs)
                /\ front' = [front EXCEPT !.stage = "uncaught"]
                /\ UNCHANGED params
           ELSE LET y_bottom_pt == sz.h - cy.v - cs.v IN
                /\ params' = InsertQRParams(
                       [ url |-> f.url, page_number |-> f.page,
                         place |-> <<InPt(cx.v), InPt(y_bottom_pt), InPt(cs.v)>>,
                         units |-> <<S_pt, S_pt>>,
                         tol_pt |-> f.tol_pt, paper_check |-> f.paper_check,
                         check_all_pages |-> f.check_all_pages,
                         paper_dim_mode |-> f.paper_dim_mode ])
                /\ pc' = "start"
                /\ front' = [front EXCEPT !.stage = "insert",
                                          !.page_h_pt = [v |-> sz.h]]
                /\ UNCHANGED error
    /\ UNCHANGED <<reader, pages_to_check, log, x_pt, y_pt, size_pt, qr_png,
                   idx, overlays, writer, out_opened, out_file, fnVars, webVars>>

\* refresh_preview of the window: the visible size of the page in the spin
\* box is cached; without PyMuPDF it returns at once, and a page out of
\* range leaves the cache as it was
RefreshPreview(fr, pages) ==
    IF ~fr.form.fitz \/ fr.page_spin > Len(pages)
    THEN fr
    ELSE [fr EXCEPT !.page_h_pt_visible =
                        [v |-> PageRect(pages[fr.page_spin])[2]]]

\* page_spin.valueChanged: the new value, then refresh_preview
GuiSetPage ==
    /\ front.kind = "gui"
    /\ front.stage = "form"
    /\ \E p \in 1..(MaxPages + 1) :
          /\ p # front.page_spin
          /\ front' = RefreshPreview([front EXCEPT !.page_spin = p], reader)
    /\ UNCHANGED <<coreVars, fnVars, webVars>>

\* the "Actualizar previsualización" button
GuiRefreshPreview ==
    /\ front.kind = "gui"
    /\ front.stage = "form"
    /\ front' = RefreshPreview(front, reader)
    /\ UNCHANGED <<coreVars, fnVars, webVars>>

\* browse_in_pdf: the chosen path is put in the input field, then
\* refresh_preview
GuiBrowse ==
    /\ front.kind = "gui"
    /\ front.stage = "form"
    /\ \E doc \in FrontDocuments :
          /\ doc # reader
          /\ reader' = doc
          /\ front' = RefreshPreview(front, doc)
    /\ UNCHANGED <<params, pc, pages_to_check, log, error, x_pt, y_pt, size_pt,
                   qr_png, idx, overlays, writer, out_opened, out_file,
                   fnVars, webVars>>

\* another path typed into the input field: no signal of the field is
\* connected, nothing else changes
GuiTypePath ==
    /\ front.kind = "gui"
    /\ front.stage = "form"
    /\ \E doc \in FrontDocuments :
          /\ doc # reader
          /\ reader' = doc
    /\ UNCHANGED <<params, pc, pages_to_check, log, error, x_pt, y_pt, size_pt,
                   qr_png, idx, overlays, writer, out_opened, out_file,
                   fnVars, frontVars, webVars>>

\* make_params: the widgets as they are
make_params(fr) ==
    InsertQRParams(
        [ url |-> fr.form.url, page_number |-> fr.page_spin,
          place |-> fr.form.place, units |-> fr.form.units,
          tol_pt |-> fr.form.tol_pt, paper_check |-> fr.form.paper_check,
          check_all_pages |-> fr.form.check_all_pages,
          paper_dim_mode |-> fr.form.paper_dim_mode ])

\* run_insert up to the call of insert_qr_into_pdf: with the box checked, x
\* and y are converted with the cached page height (read from the target
\* page when nothing is cached); a failure there, or a height still unknown
\* because PyMuPDF is missing, is logged and the parameters go on
\* unconverted
GuiRunInsert ==
    /\ front.kind = "gui"
    /\ front.stage = "form"
    /\ pc = "form"
    /\ LET base == make_params(front)
           l == LoadPage(reader, front.page_spin - 1)
           cached == front.page_h_pt_visible
       IN  IF ~front.form.visual_coords_chk
           THEN /\ params' = base
                /\ front' = [front EXCEPT !.stage = "insert"]
           ELSE IF cached = NoValue /\ ~front.form.fitz
           THEN /\ params' = base
                /\ front' = [front EXCEPT !.stage = "insert",
                                          !.conversion = "unknown"]
           ELSE IF cached = NoValue /\ ~l.ok
           THEN /\ params' = base
                /\ front' = [front EXCEPT !.stage = "insert",
                                          !.conversion = "failed"]
           ELSE LET page_h_pt == IF cached = NoValue
                                 THEN PageRect(l.page)[2] ELSE cached.v
                    cx == to_points(base.x_value, base.unit)
                    cy == to_points(base.y_value, base.unit)
                    cs == to_points(base.size_value, base.size_unit)
                    y_bottom_pt == page_h_pt - cy.v - cs.v
                IN  /\ params' = [base EXCEPT !.unit = S_pt,
                                              !.x_value = InPt(cx.v),
                                              !.y_value = InPt(y_bottom_pt)]
                    /\ front' = [front EXCEPT !.stage = "insert",
                                              !.conversion = "done",
                                              !.page_h_pt_visible = [v |-> page_h_pt]]
    /\ pc' = "start"
    /\ UNCHANGED <<reader, pages_to_check, log, error, x_pt, y_pt, size_pt,
                   qr_png, idx, overlays, writer, out_opened, out_file,
                   fnVars, webVars>>

\* a request about to be handled, or the window as constructed (page 1,
\* nothing cached) with its widgets set
InitFront ==
    /\ reader \in FrontDocuments
    /\ params = NoValue
    /\ pc = "form"
    /\ pages_to_check = <<>>
    /\ log = <<>>
    /\ error = NoError
    /\ x_pt = NoValue /\ y_pt = NoValue /\ size_pt = NoValue
    /\ qr_png = NoValue
    /\ idx = 0
    /\ overlays = <<>>
    /\ writer = <<>>
    /\ out_opened = FALSE
    /\ out_file = NoValue
    /\ FnIdle
    /\ WebOff
    /\ \/ \E f \in WebForms :
             front = [kind |-> "web", stage |-> "form", form |-> f,
                      page_h_pt |-> NoValue]
       \/ \E f \in GuiForms :
             front = [kind |-> "gui", stage |-> "form", form |-> f,
                      page_spin |-> 1, page_h_pt_visible |-> NoValue,
                      conversion |-> "none"]

NextFront ==
    \/ WebApply
    \/ GuiBrowse
    \/ GuiTypePath
    \/ GuiSetPage
    \/ GuiRefreshPreview
    \/ GuiRunInsert
    \/ Next

SpecFront == InitFront /\ [][NextFront]_vars

----------------------------------------------------------------------------
(* The rectangle of the preview and the X/Y fields (gui_insert_qr.py):       *)
(* SpecRect                                                                  *)
(*                                                                           *)
(* Qt delivers the signals of one thread as direct calls, so the handlers    *)
(* nest: front.stack holds the calls in progress, the innermost last.        *)
(* Fields are in thousandths of a point (the spin boxes keep 3 decimals,     *)
(* unit pt), rectangle positions in 1/10000 pixel; the preview is rendered   *)
(* at zoom 2, so one thousandth of a point is PosPerField position steps.    *)

PosPerField == 20

\* the page of the preview and the side of the QR, in thousandths of a point
RectPageH == 700000
RectSize == 10000

\* QDoubleSpinBox.setValue: the value rounded to the decimals of the box
RoundToField(pos) == (pos + PosPerField \div 2) \div PosPerField

\* positions a drag can end at, and values typed into a field
DragPositions == { 0, 24690, 400000, 1234567 }
TypedValues == { 0, 2000, 61728 }

\* on_rect_moved, lines 636-648: the fields the rectangle's position gives
FieldsOfRect(fr, rx, ry) ==
    LET x_vis == RoundToField(rx)
        y_vis == RoundToField(ry)
    IN  IF fr.visual THEN <<x_vis, y_vis>>
        ELSE <<x_vis, RectPageH - y_vis - RectSize>>

\* _refresh_rect_only, lines 563-586: the position the fields give
RectOfFields(fr) ==
    IF fr.visual THEN <<fr.x * PosPerField, fr.y * PosPerField>>
    ELSE <<fr.x * PosPerField, (RectPageH - fr.y - RectSize) * PosPerField>>



\* DraggableRectItem.itemChange -> rectMoved -> on_rect_moved up to line
\* 631: it returns at once while no page size is known, else it raises the
\* guard and goes on
EnterRectMoved(fr) ==
    IF ~fr.known THEN fr
    ELSE [fr EXCEPT !.syncing = TRUE,
                    !.stack = Append(@, [f |-> "on_rect_moved", pc |-> "set_x"])]

Unguarded_RefreshEntry(fr) == fr.known

\* _refresh_rect_only, lines 556-561: whether it goes on to the rectangle
RefreshEntry(fr) == fr.known /\ ~fr.syncing

\* the user drags the rectangle to another position
UserDrag ==
    /\ front.kind = "rect"
    /\ front.stack = <<>>
    /\ \E rx \in DragPositions, ry \in DragPositions :
          /\ <<rx, ry>> # <<front.rx, front.ry>>
          /\ front' = EnterRectMoved([front EXCEPT !.rx = rx, !.ry = ry,
                                                  !.event = "drag", !.moves = 0])
    /\ UNCHANGED <<coreVars, fnVars, webVars>>

\* the user types another value into the X or the Y field: valueChanged
\* calls _refresh_rect_only
UserEdit ==
    /\ front.kind = "rect"
    /\ front.stack = <<>>
    /\ \E v \in TypedValues, field \in {"x", "y"} :
          /\ v # (IF field = "x" THEN front.x ELSE front.y)
          /\ front' = [front EXCEPT
                 !.x = IF field = "x" THEN v ELSE @,
                 !.y = IF field = "y" THEN v ELSE @,
                 !.event = "edit", !.moves = 0,
                 !.stack = Append(@, [f |-> "_refresh_rect_only", pc |-> "entry"])]
    /\ UNCHANGED <<coreVars, fnVars, webVars>>

\* on_rect_moved, lines 647-648: x_spin.setValue, then y_spin.setValue; a
\* value that changes emits valueChanged, which calls _refresh_rect_only; a
\* statement of the try block that raises leads to the finally clause
RectMovedSet ==
    /\ front.kind = "rect"
    /\ front.stack # <<>>
    /\ front.stack[Len(front.stack)].f = "on_rect_moved"
    /\ front.stack[Len(front.stack)].pc \in {"set_x", "set_y"}
    /\ LET top == Len(front.stack)
           fields == FieldsOfRect(front, front.rx, front.ry)
           isX == front.stack[top].pc = "set_x"
           new == IF isX THEN fields[1] ELSE fields[2]
           old == IF isX THEN front.x ELSE front.y
           next == [front EXCEPT !.stack[top].pc = IF isX THEN "set_y" ELSE "finally"]
       IN  \/ /\ new = old
              /\ front' = next
           \/ /\ new # old
              /\ front' = [next EXCEPT
                     !.x = IF isX THEN new ELSE @,
                     !.y = IF isX THEN @ ELSE new,
                     !.stack = Append(@, [f |-> "_refresh_rect_only", pc |-> "entry"])]
           \/ /\ front.may_raise
              /\ front' = [front EXCEPT !.stack[top].pc = "finally"]
    /\ UNCHANGED <<coreVars, fnVars, webVars>>

\* on_rect_moved, lines 650-651: finally, the guard is lowered; the call
\* returns
RectMovedFinally ==
    /\ front.kind = "rect"
    /\ front.stack # <<>>
    /\ front.stack[Len(front.stack)] = [f |-> "on_rect_moved", pc |-> "finally"]
    /\ front' = [front EXCEPT !.syncing = FALSE,
                              !.stack = SubSeq(@, 1, Len(@) - 1)]
    /\ UNCHANGED <<coreVars, fnVars, webVars>>

\* _refresh_rect_only: it returns at its guards, or computes the position
\* and calls set_or_update_rect; setPos to another position makes itemChange
\* call on_rect_moved
RefreshRectOnly ==
    /\ front.kind = "rect"
    /\ front.stack # <<>>
    /\ front.stack[Len(front.stack)] = [f |-> "_refresh_rect_only", pc |-> "entry"]
    /\ LET r == RectOfFields(front)
           returned == [front EXCEPT !.stack = SubSeq(@, 1, Len(@) - 1)]
       IN  IF ~RefreshEntry(front) \/ r = <<front.rx, front.ry>>
           THEN front' = returned
           ELSE front' = EnterRectMoved(
                    [front EXCEPT !.stack[Len(front.stack)].pc = "return",
                                  !.rx = r[1], !.ry = r[2],
                                  !.moves = @ + 1])
    /\ UNCHANGED <<coreVars, fnVars, webVars>>

\* _refresh_rect_only returns after set_or_update_rect
RefreshReturn ==
    /\ front.kind = "rect"
    /\ front.stack # <<>>
    /\ front.stack[Len(front.stack)] = [f |-> "_refresh_rect_only", pc |-> "return"]
    /\ front' = [front EXCEPT !.stack = SubSeq(@, 1, Len(@) - 1)]
    /\ UNCHANGED <<coreVars, fnVars, webVars>>

\* the window with its X/Y fields (2.0 and 3.0 as constructed), with or
\* without a previewed page, no call in progress
InitRect ==
    /\ reader = <<>>
    /\ params = NoValue
    /\ pc = "gui"
    /\ pages_to_check = <<>>
    /\ log = <<>>
    /\ error = NoError
    /\ x_pt = NoValue /\ y_pt = NoValue /\ size_pt = NoValue
    /\ qr_png = NoValue
    /\ idx = 0
    /\ overlays = <<>>
    /\ writer = <<>>
    /\ out_opened = FALSE
    /\ out_file = NoValue
    /\ FnIdle
    /\ WebOff
    /\ \E known \in BOOLEAN, visual \in BOOLEAN, may_raise \in BOOLEAN :
          front = [kind |-> "rect", known |-> known, visual |-> visual,
                   may_raise |-> may_raise,
                   x |-> 2000, y |-> 3000, rx |-> 0, ry |-> 0,
                   syncing |-> FALSE, stack |-> <<>>,
                   event |-> "none", moves |-> 0]

NextRect ==
    \/ UserDrag
    \/ UserEdit
    \/ RectMovedSet
    \/ RectMovedFinally
    \/ RefreshRectOnly
    \/ RefreshReturn

SpecRect == InitRect /\ [][NextRect]_vars

----------------------------------------------------------------------------
(* The web application's storage and threads (app.py): SpecWeb               *)
(*                                                                           *)
(* A file is "absent", "fresh" or "old": old when its mtime is more than     *)
(* CLEANUP_MAX_AGE_SECONDS in the past.  Request handlers run in the          *)
(* server's threads, the cleanup worker in its own thread; no lock is taken  *)
(* anywhere in app.py, so steps interleave at every file operation.  File    *)
(* operations follow POSIX: unlinking a file that is open succeeds.          *)

Tokens == {"t1"}

\* the server's request threads
Handlers == {"h1", "h2"}

\* _cleanup_worker, and cleanup_storage_once run by /admin/cleanup
Cleaners == {"worker", "admin"}

\* cleanup_storage_once, in the order of its dictionary
CleanedDirs == <<"uploads", "previews", "outputs">>

IdleHandler == [op |-> "idle", token |-> "none", pc |-> "idle"]

IdleCleaner == [pc |-> "idle", dir |-> 0, todo |-> {}, victim |-> "none"]

FileIn(dir, t) ==
    IF dir = "uploads" THEN uploads[t]
    ELSE IF dir = "previews" THEN previews[t]
    ELSE outputs[t]

\* a request arrives at a free thread: /apply/<token> or /download/<token>
BeginRequest(h) ==
    /\ handlers[h] = IdleHandler
    /\ \E t \in DOMAIN uploads, op \in {"apply", "download"} :
          handlers' = [handlers EXCEPT ![h] = [op |-> op, token |-> t, pc |-> "exists"]]
    /\ UNCHANGED <<uploads, outputs, cleaners, previews, nonWebVars>>

\* /upload: the PDF is saved under a new token
Upload(h) ==
    /\ handlers[h] = IdleHandler
    /\ \E t \in DOMAIN uploads :
          /\ uploads[t] = "absent" /\ outputs[t] = "absent"
          /\ \A g \in Handlers : handlers[g].token # t
          /\ uploads' = [uploads EXCEPT ![t] = "fresh"]
    /\ UNCHANGED <<outputs, handlers, cleaners, previews, nonWebVars>>

\* apply, lines 487-489: pdf_path.exists(), else 404
ApplyExists(h) ==
    /\ handlers[h].op = "apply"
    /\ handlers[h].pc = "exists"
    /\ handlers' = [handlers EXCEPT ![h] =
                       IF uploads[handlers[h].token] = "absent"
                       THEN IdleHandler
                       ELSE [@ EXCEPT !.pc = "pagesize"]]
    /\ UNCHANGED <<uploads, outputs, cleaners, previews, nonWebVars>>

\* apply, line 509: fitz.open(pdf_path); a missing file is an uncaught error
ApplyPageSize(h) ==
    /\ handlers[h].op = "apply"
    /\ handlers[h].pc = "pagesize"
    /\ handlers' = [handlers EXCEPT ![h] =
                       IF uploads[handlers[h].token] = "absent"
                       THEN IdleHandler
                       ELSE [@ EXCEPT !.pc = "insert"]]
    /\ UNCHANGED <<uploads, outputs, cleaners, previews, nonWebVars>>

\* insert_qr_into_pdf, line 199: PdfReader(params.input_pdf) reads the
\* upload; a missing file ends the insertion (caught, answered with 400)
InsertRead(h) ==
    /\ handlers[h].op = "apply"
    /\ handlers[h].pc = "insert"
    /\ handlers' = [handlers EXCEPT ![h] =
                       IF uploads[handlers[h].token] = "absent"
                       THEN IdleHandler
                       ELSE [@ EXCEPT !.pc = "merge"]]
    /\ UNCHANGED <<uploads, outputs, cleaners, previews, nonWebVars>>

\* insert_qr_into_pdf, line 232: open(params.output_pdf, "wb") after the
\* merge: the output is created or truncated
InsertOpenOutput(h) ==
    /\ handlers[h].op = "apply"
    /\ handlers[h].pc = "merge"
    /\ outputs' = [outputs EXCEPT ![handlers[h].token] = "fresh"]
    /\ handlers' = [handlers EXCEPT ![h].pc = "writing"]
    /\ UNCHANGED <<uploads, cleaners, previews, nonWebVars>>

\* insert_qr_into_pdf, line 233, and the response: the pages are written and
\* the file closed; a file unlinked meanwhile stays gone
InsertWrite(h) ==
    /\ handlers[h].op = "apply"
    /\ handlers[h].pc = "writing"
    /\ outputs' = [outputs EXCEPT ![handlers[h].token] =
                      IF @ = "absent" THEN "absent" ELSE "fresh"]
    /\ handlers' = [handlers EXCEPT ![h] = IdleHandler]
    /\ UNCHANGED <<uploads, cleaners, previews, nonWebVars>>

\* download, lines 562-564: out_path.exists(), else 404
DownloadExists(h) ==
    /\ handlers[h].op = "download"
    /\ handlers[h].pc = "exists"
    /\ handlers' = [handlers EXCEPT ![h] =
                       IF outputs[handlers[h].token] = "absent"
                       THEN IdleHandler
                       ELSE [@ EXCEPT !.pc = "send"]]
    /\ UNCHANGED <<uploads, outputs, cleaners, previews, nonWebVars>>

\* download, lines 575-580: send_file opens the output; a missing file is an
\* error and the response hooks do not run
DownloadSend(h) ==
    /\ handlers[h].op = "download"
    /\ handlers[h].pc = "send"
    /\ handlers' = [handlers EXCEPT ![h] =
                       IF outputs[handlers[h].token] = "absent"
                       THEN IdleHandler
                       ELSE [@ EXCEPT !.pc = "cleanup"]]
    /\ UNCHANGED <<uploads, outputs, cleaners, previews, nonWebVars>>

\* "<token>_p1_z2.00.png".startswith("<token>_"): tokens are the 32 hex
\* digits of uuid4().hex, so the prefix of one token matches no file of
\* another
StartsWithTokenPrefix(file_token, token) == file_token = token

AllPreviews_cleanup_token_artifacts(t) ==
    /\ outputs' = [outputs EXCEPT ![t] = "absent"]
    /\ previews' = [f \in DOMAIN previews |-> "absent"]

\* cleanup_token_artifacts, lines 175-215: <token>_out.pdf, then the files
\* of PREVIEWS_DIR whose name starts with "<token>_"
cleanup_token_artifacts(t) ==
    /\ outputs' = [outputs EXCEPT ![t] = "absent"]
    /\ previews' = [f \in DOMAIN previews |->
                       IF StartsWithTokenPrefix(f, t) THEN "absent" ELSE previews[f]]

\* download, lines 567-573: cleanup_token_artifacts(token) unlinks the
\* output and the previews before the body is streamed
DownloadCleanup(h) ==
    /\ handlers[h].op = "download"
    /\ handlers[h].pc = "cleanup"
    /\ cleanup_token_artifacts(handlers[h].token)
    /\ handlers' = [handlers EXCEPT ![h].pc = "stream"]
    /\ UNCHANGED <<uploads, cleaners, nonWebVars>>

\* the opened file is streamed to the client
DownloadStream(h) ==
    /\ handlers[h].op = "download"
    /\ handlers[h].pc = "stream"
    /\ handlers' = [handlers EXCEPT ![h] = IdleHandler]
    /\ UNCHANGED <<uploads, outputs, cleaners, previews, nonWebVars>>

\* time passes: a closed file gets older than CLEANUP_MAX_AGE_SECONDS
Age ==
    \E t \in DOMAIN uploads :
        /\ \/ /\ uploads[t] = "fresh"
              /\ uploads' = [uploads EXCEPT ![t] = "old"]
              /\ UNCHANGED <<outputs, previews>>
           \/ /\ outputs[t] = "fresh"
              /\ \A h \in Handlers :
                    ~(handlers[h].token = t /\ handlers[h].pc = "writing")
              /\ outputs' = [outputs EXCEPT ![t] = "old"]
              /\ UNCHANGED <<uploads, previews>>
           \/ /\ previews[t] = "fresh"
              /\ previews' = [previews EXCEPT ![t] = "old"]
              /\ UNCHANGED <<uploads, outputs>>
        /\ UNCHANGED <<handlers, cleaners, nonWebVars>>

\* cleanup_storage_once begins: the worker's loop, or an admin request that
\* passed require_admin
CleanerStart(c) ==
    /\ cleaners[c].pc = "idle"
    /\ cleaners' = [cleaners EXCEPT ![c] =
                       [pc |-> "scan", dir |-> 1, todo |-> DOMAIN uploads, victim |-> "none"]]
    /\ UNCHANGED <<uploads, outputs, handlers, previews, nonWebVars>>

\* cleanup_dir, lines 145-156: the next entry of iterdir(), in any order;
\* is_file() and stat(): an old file is to be unlinked, others are skipped
CleanerStat(c) ==
    /\ cleaners[c].pc = "scan"
    /\ \E t \in cleaners[c].todo :
          cleaners' = [cleaners EXCEPT ![c] =
              IF FileIn(CleanedDirs[cleaners[c].dir], t) = "old"
              THEN [@ EXCEPT !.pc = "unlink", !.victim = t]
              ELSE [@ EXCEPT !.todo = @ \ {t}]]
    /\ UNCHANGED <<uploads, outputs, handlers, previews, nonWebVars>>

\* _safe_unlink: path.unlink(missing_ok=True), whatever the file is by now
CleanerUnlink(c) ==
    /\ cleaners[c].pc = "unlink"
    /\ LET t == cleaners[c].victim IN
       /\ IF CleanedDirs[cleaners[c].dir] = "uploads"
          THEN /\ uploads' = [uploads EXCEPT ![t] = "absent"]
               /\ UNCHANGED <<previews, outputs>>
          ELSE IF CleanedDirs[cleaners[c].dir] = "previews"
          THEN /\ previews' = [previews EXCEPT ![t] = "absent"]
               /\ UNCHANGED <<uploads, outputs>>
          ELSE /\ outputs' = [outputs EXCEPT ![t] = "absent"]
               /\ UNCHANGED <<uploads, previews>>
       /\ cleaners' = [cleaners EXCEPT ![c] =
              [@ EXCEPT !.pc = "scan", !.todo = @ \ {t}, !.victim = "none"]]
    /\ UNCHANGED <<handlers, nonWebVars>>

\* the directory is done: the next one, or the end of cleanup_storage_once
CleanerNextDir(c) ==
    /\ cleaners[c].pc = "scan"
    /\ cleaners[c].todo = {}
    /\ cleaners' = [cleaners EXCEPT ![c] =
                       IF cleaners[c].dir < Len(CleanedDirs)
                       THEN [@ EXCEPT !.dir = @ + 1, !.todo = DOMAIN uploads]
                       ELSE IdleCleaner]
    /\ UNCHANGED <<uploads, outputs, handlers, previews, nonWebVars>>

InitWeb ==
    /\ reader = <<>>
    /\ params = NoValue
    /\ pc = "web"
    /\ pages_to_check = <<>>
    /\ log = <<>>
    /\ error = NoError
    /\ x_pt = NoValue /\ y_pt = NoValue /\ size_pt = NoValue
    /\ qr_png = NoValue
    /\ idx = 0
    /\ overlays = <<>>
    /\ writer = <<>>
    /\ out_opened = FALSE
    /\ out_file = NoValue
    /\ FnIdle
    /\ FrontIdle
    /\ uploads = [t \in Tokens |-> "absent"]
    /\ outputs = [t \in Tokens |-> "absent"]
    /\ previews = [t \in Tokens |-> "absent"]
    /\ handlers = [h \in Handlers |-> IdleHandler]
    /\ cleaners = [c \in Cleaners |-> IdleCleaner]

NextWeb ==
    \/ \E h \in Handlers : BeginRequest(h)
    \/ \E h \in Handlers : Upload(h)
    \/ \E h \in Handlers : ApplyExists(h)
    \/ \E h \in Handlers : ApplyPageSize(h)
    \/ \E h \in Handlers : InsertRead(h)
    \/ \E h \in Handlers : InsertOpenOutput(h)
    \/ \E h \in Handlers : InsertWrite(h)
    \/ \E h \in Handlers : DownloadExists(h)
    \/ \E h \in Handlers : DownloadSend(h)
    \/ \E h \in Handlers : DownloadCleanup(h)
    \/ \E h \in Handlers : DownloadStream(h)
    \/ \E c \in Cleaners : CleanerStart(c)
    \/ \E c \in Cleaners : CleanerStat(c)
    \/ \E c \in Cleaners : CleanerUnlink(c)
    \/ \E c \in Cleaners : CleanerNextDir(c)
    \/ Age

SpecWeb == InitWeb /\ [][NextWeb]_vars

----------------------------------------------------------------------------
(* One request to /admin/cleanup (app.py): SpecAdmin                         *)
(*                                                                           *)
(* fnArgs holds the configuration read at start-up and the request, fnRes    *)
(* the response; the cleanup itself is cleanup_storage_once as above.        *)

LocalIp == "127.0.0.1"
OtherIp == "203.0.113.9"

TheKey == <<"k", "1">>

\* admin_key after str().strip(), admin_allowed_ips after the set
\* comprehension of line 119 (an empty list stays empty),
\* admin_trust_proxy_headers
AdminConfigs ==
    [ admin_key : {<<>>, TheKey},
      admin_allowed_ips : {{}, {LocalIp}},
      admin_trust_proxy_headers : BOOLEAN ]

\* remote_addr, X-Forwarded-For as its comma-separated addresses, X-Real-IP
\* ("" when absent), and the key in the X-Admin-Key header, the query
\* string and the form (<<>> when absent)
AdminRequests ==
    [ remote_addr : {LocalIp, OtherIp},
      xff : {<<>>, <<LocalIp, OtherIp>>},
      xri : {"", OtherIp},
      header_key : {<<>>, TheKey, <<"x">>},
      query_key : {<<>>, <<" ", "k", "1", " ">>},
      form_key : {<<>>, TheKey} ]

get_client_ip(cfg, req) ==
    IF cfg.admin_trust_proxy_headers /\ req.xff # <<>> THEN req.xff[1]
    ELSE IF cfg.admin_trust_proxy_headers /\ req.xri # "" THEN req.xri
    ELSE req.remote_addr

\* a or b or c or "" of Python: the first non-empty one
ProvidedKey(req) ==
    StrStrip(IF req.header_key # <<>> THEN req.header_key
             ELSE IF req.query_key # <<>> THEN req.query_key
             ELSE req.form_key)

\* 403 for abort(403, ...), 200 when it returns
require_admin(cfg, req) ==
    IF cfg.admin_allowed_ips # {} /\ get_client_ip(cfg, req) \notin cfg.admin_allowed_ips
    THEN 403
    ELSE IF cfg.admin_key = <<>> THEN 200
    ELSE IF ProvidedKey(req) # cfg.admin_key THEN 403
    ELSE 200

\* the response status; 0 while the handler is still running
AdminRunning == [status |-> 0]

\* admin_cleanup_get / admin_cleanup_post: require_admin(), then
\* cleanup_storage_once begins
AdminRequire ==
    /\ fn = "admin_cleanup"
    /\ fnRes = NoValue
    /\ IF require_admin(fnArgs.cfg, fnArgs.req) = 403
       THEN /\ fnRes' = [status |-> 403]
            /\ UNCHANGED cleaners
       ELSE /\ fnRes' = AdminRunning
            /\ cleaners' = [cleaners EXCEPT !["admin"] =
                   [pc |-> "scan", dir |-> 1, todo |-> DOMAIN uploads,
                    victim |-> "none"]]
    /\ UNCHANGED <<uploads, outputs, previews, handlers, coreVars, frontVars,
                   fn, fnArgs>>

\* cleanup_storage_once has returned: jsonify(...)
AdminRespond ==
    /\ fn = "admin_cleanup"
    /\ fnRes = AdminRunning
    /\ cleaners["admin"] = IdleCleaner
    /\ fnRes' = [status |-> 200]
    /\ UNCHANGED <<webVars, coreVars, frontVars, fn, fnArgs>>

FileStates == {"absent", "fresh", "old"}

InitAdmin ==
    /\ reader = <<>>
    /\ params = NoValue
    /\ pc = "web"
    /\ pages_to_check = <<>>
    /\ log = <<>>
    /\ error = NoError
    /\ x_pt = NoValue /\ y_pt = NoValue /\ size_pt = NoValue
    /\ qr_png = NoValue
    /\ idx = 0
    /\ overlays = <<>>
    /\ writer = <<>>
    /\ out_opened = FALSE
    /\ out_file = NoValue
    /\ FrontIdle
    /\ uploads \in [Tokens -> FileStates]
    /\ outputs \in [Tokens -> FileStates]
    /\ previews \in [Tokens -> FileStates]
    /\ handlers = [h \in Handlers |-> IdleHandler]
    /\ cleaners = [c \in Cleaners |-> IdleCleaner]
    /\ fn = "admin_cleanup"
    /\ \E cfg \in AdminConfigs, req \in AdminRequests :
          fnArgs = [cfg |-> cfg, req |-> req]
    /\ fnRes = NoValue

NextAdmin ==
    \/ AdminRequire
    \/ CleanerStat("admin")
    \/ CleanerUnlink("admin")
    \/ CleanerNextDir("admin")
    \/ AdminRespond

SpecAdmin == InitAdmin /\ [][NextAdmin]_vars

----------------------------------------------------------------------------
(* Uploads, previews, insertions and downloads of two tokens, without the    *)
(* cleanup threads: SpecDownload                                             *)

DownloadTokens == {"t1", "t2"}

\* a request for /preview/<token>/1 arrives at a free thread
BeginPreview(h) ==
    /\ handlers[h] = IdleHandler
    /\ \E t \in DOMAIN uploads :
          handlers' = [handlers EXCEPT ![h] =
                          [op |-> "preview", token |-> t, pc |-> "exists"]]
    /\ UNCHANGED <<uploads, outputs, previews, cleaners, nonWebVars>>

\* preview, lines 467-469: pdf_path.exists(), else 404
PreviewExists(h) ==
    /\ handlers[h].op = "preview"
    /\ handlers[h].pc = "exists"
    /\ handlers' = [handlers EXCEPT ![h] =
                       IF uploads[handlers[h].token] = "absent"
                       THEN IdleHandler
                       ELSE [@ EXCEPT !.pc = "render"]]
    /\ UNCHANGED <<uploads, outputs, previews, cleaners, nonWebVars>>

\* render_preview_png: an existing PNG is reused; otherwise the upload is
\* opened (a missing file is an error) and the PNG saved
PreviewRender(h) ==
    /\ handlers[h].op = "preview"
    /\ handlers[h].pc = "render"
    /\ LET t == handlers[h].token IN
       IF previews[t] # "absent"
       THEN /\ handlers' = [handlers EXCEPT ![h].pc = "send"]
            /\ UNCHANGED previews
       ELSE IF uploads[t] = "absent"
       THEN /\ handlers' = [handlers EXCEPT ![h] = IdleHandler]
            /\ UNCHANGED previews
       ELSE /\ previews' = [previews EXCEPT ![t] = "fresh"]
            /\ handlers' = [handlers EXCEPT ![h].pc = "send"]
    /\ UNCHANGED <<uploads, outputs, cleaners, nonWebVars>>

\* preview, line 472: send_file(png_path)
PreviewSend(h) ==
    /\ handlers[h].op = "preview"
    /\ handlers[h].pc = "send"
    /\ handlers' = [handlers EXCEPT ![h] = IdleHandler]
    /\ UNCHANGED <<uploads, outputs, previews, cleaners, nonWebVars>>

InitDownload ==
    /\ reader = <<>>
    /\ params = NoValue
    /\ pc = "web"
    /\ pages_to_check = <<>>
    /\ log = <<>>
    /\ error = NoError
    /\ x_pt = NoValue /\ y_pt = NoValue /\ size_pt = NoValue
    /\ qr_png = NoValue
    /\ idx = 0
    /\ overlays = <<>>
    /\ writer = <<>>
    /\ out_opened = FALSE
    /\ out_file = NoValue
    /\ FnIdle
    /\ FrontIdle
    /\ uploads = [t \in DownloadTokens |-> "absent"]
    /\ outputs = [t \in DownloadTokens |-> "absent"]
    /\ previews = [t \in DownloadTokens |-> "absent"]
    /\ handlers = [h \in Handlers |-> IdleHandler]
    /\ cleaners = [c \in Cleaners |-> IdleCleaner]

NextDownload ==
    \/ \E h \in Handlers : BeginRequest(h)
    \/ \E h \in Handlers : Upload(h)
    \/ \E h \in Handlers : BeginPreview(h)
    \/ \E h \in Handlers : PreviewExists(h)
    \/ \E h \in Handlers : PreviewRender(h)
    \/ \E h \in Handlers : PreviewSend(h)
    \/ \E h \in Handlers : ApplyExists(h)
    \/ \E h \in Handlers : ApplyPageSize(h)
    \/ \E h \in Handlers : InsertRead(h)
    \/ \E h \in Handlers : InsertOpenOutput(h)
    \/ \E h \in Handlers : InsertWrite(h)
    \/ \E h \in Handlers : DownloadExists(h)
    \/ \E h \in Handlers : DownloadSend(h)
    \/ \E h \in Handlers : DownloadCleanup(h)
    \/ \E h \in Handlers : DownloadStream(h)

SpecDownload == InitDownload /\ [][NextDownload]_vars

----------------------------------------------------------------------------
(* Properties of the insertion runs (Spec) *)

Terminated == pc \in {"done", "failed"}

TargetInRange == 1 <= params.page_number /\ params.page_number <= Len(reader)

\* the pages the validator is asked to examine
Scope == IF params.check_all_pages THEN 1..Len(reader) ELSE {params.page_number}

\* the resolved rotation of page i of the source document
RotationOf(i) == get_page_rotation_degrees(reader[i].rotate)

\* page i does not classify, with the dimensions the validator compares
Unrecognized(i) ==
    LET chk == IF params.paper_dim_mode = "visible"
               THEN visible_dimensions(reader[i].w, reader[i].h, RotationOf(i))
               ELSE <<reader[i].w, reader[i].h>>
    IN  classify_page_size(chk[1], chk[2], params.tol_pt) = None

AcceptedUnits == {S_pt, S_pts, S_point, S_points, S_mm, S_cm}

UnitsSupported ==
    /\ NormUnit(params.unit) \in AcceptedUnits
    /\ NormUnit(params.size_unit) \in AcceptedUnits

NothingProduced ==
    /\ qr_png = NoValue
    /\ overlays = <<>>
    /\ ~out_opened
    /\ out_file = NoValue

\* C1: every overlay insert_qr_into_pdf builds has the target page's raw
\* mediabox (width, height) as its page size and carries the QR as a square
\* of side to_points(size) with lower-left corner (to_points(x), to_points(y)),
\* whatever the page's rotation and whatever paper_dim_mode is.
C1_OverlayRawMediaboxAndPosition ==
    \A k \in 1..Len(overlays) :
        LET ov == overlays[k]
            target == reader[params.page_number]
        IN  /\ ov.pagesize = <<target.w, target.h>>
            /\ ov.x = to_points(params.x_value, params.unit).v
            /\ ov.y = to_points(params.y_value, params.unit).v
            /\ ov.width = to_points(params.size_value, params.size_unit).v
            /\ ov.height = ov.width
            /\ ov.image = generate_qr_png_bytes(params.url)

C1_Witness ==
    /\ pc = "done"
    /\ overlays # <<>>
    /\ params.paper_dim_mode = "visible"
    /\ RotationOf(params.page_number) \in {90, 270}
    /\ reader[params.page_number].w # reader[params.page_number].h
    /\ NormUnit(params.unit) = S_mm

\* C2: a page_number outside [1, pageCount] ends the insertion with the
\* page-out-of-range error at the first step: no diagnostic line was printed,
\* no QR or overlay was made, the output was not opened or written, for every
\* paper_check and check_all_pages.
C2_OutOfRangeFailsBeforeValidation ==
    (~TargetInRange /\ pc # "start") =>
        /\ pc = "failed"
        /\ error.kind = "ValueError"
        /\ error.what = "page_number fuera de rango"
        /\ error.pages = Len(reader)
        /\ log = <<>>
        /\ NothingProduced

C2_Witness ==
    /\ pc = "failed"
    /\ params.page_number = 0
    /\ params.paper_check = "strict"
    /\ params.check_all_pages
    /\ \E i \in 1..Len(reader) : Unrecognized(i)
    /\ log = <<>>

SizeWarningsFor(i) ==
    { k \in 1..Len(log) :
        /\ log[k].tag = "[ADVERTENCIA]"
        /\ log[k].about = "size"
        /\ log[k].page = i }

\* C3: with an unrecognized page in the validation scope, strict aborts with
\* the validation error and the destination is never opened; warn on the same
\* (otherwise valid) request writes the output and prints exactly one size
\* warning for each such page.
C3_StrictAbortsWarnContinues ==
    (TargetInRange /\ \E i \in Scope : Unrecognized(i)) =>
        /\ params.paper_check = "strict" =>
              /\ pc \in {"start", "validate", "failed"}
              /\ Terminated => (error.kind = "ValueError" /\ error.what = "paper")
              /\ ~out_opened /\ out_file = NoValue
              /\ SizeWarningsFor(params.page_number) = {}
        /\ (params.paper_check = "warn" /\ UnitsSupported /\ Terminated) =>
              /\ pc = "done"
              /\ out_opened /\ out_file # NoValue
              /\ \A i \in Scope :
                    Cardinality(SizeWarningsFor(i)) = IF Unrecognized(i) THEN 1 ELSE 0

C3_Witness ==
    /\ pc = "done"
    /\ params.paper_check = "warn"
    /\ params.check_all_pages
    /\ out_file # NoValue
    /\ Unrecognized(params.page_number)
    /\ Cardinality(SizeWarningsFor(params.page_number)) = 1

\* C4: after a successful insertion the output holds the n source pages in
\* source order, the page at page_number with exactly one overlay merged (the
\* only overlay built), every other page with nothing merged.
C4_OutputPagesAndSingleMerge ==
    pc = "done" =>
        /\ Len(out_file.pages) = Len(reader)
        /\ Len(overlays) = 1
        /\ \A i \in 1..Len(out_file.pages) :
              /\ out_file.pages[i].src = i
              /\ out_file.pages[i].page = reader[i]
              /\ out_file.pages[i].merged =
                    IF i = params.page_number THEN <<overlays[1]>> ELSE <<>>

C4_Witness ==
    /\ pc = "done"
    /\ Len(reader) = 3
    /\ params.page_number = 2
    /\ out_file.pages[2].merged # <<>>
    /\ out_file.pages[3].merged = <<>>

----------------------------------------------------------------------------
(* Properties of the pure functions (SpecFn) *)

Classified == fn = "classify_page_size"

\* the comparisons of one standard, with the references written out
Direct(name, w, h, tol) ==
    IF name = "A4"
    THEN Abs(w - A4_W) <= tol /\ Abs(h - A4_H) <= tol
    ELSE Abs(w - LETTER_W) <= tol /\ Abs(h - LETTER_H) <= tol

Swapped(name, w, h, tol) == Direct(name, h, w, tol)

Matches(name, w, h, tol) == Direct(name, w, h, tol) \/ Swapped(name, w, h, tol)

\* C5: the result is the first match in the order A4 direct, A4 swapped,
\* LETTER direct, LETTER swapped (bare name for direct, "(rotated)" for
\* swapped), and None exactly when nothing matches in either orientation.
C5_FirstMatchInDeclaredOrder ==
    Classified =>
        LET w == fnArgs.width_pt
            h == fnArgs.height_pt
            tol == fnArgs.tol_pt
            res == fnRes.classification
        IN  /\ res =
                 IF Direct("A4", w, h, tol) THEN "A4"
                 ELSE IF Swapped("A4", w, h, tol) THEN "A4(rotated)"
                 ELSE IF Direct("LETTER", w, h, tol) THEN "LETTER"
                 ELSE IF Swapped("LETTER", w, h, tol) THEN "LETTER(rotated)"
                 ELSE None
            /\ (res = None) <=>
                 ~(Matches("A4", w, h, tol) \/ Matches("LETTER", w, h, tol))

\* a page both orientations of A4 and LETTER accept: the direct A4 match wins
C5_Witness ==
    /\ Classified
    /\ fnArgs = [width_pt |-> Pt(718), height_pt |-> Pt(718), tol_pt |-> Pt(130)]
    /\ Swapped("A4", Pt(718), Pt(718), Pt(130))
    /\ Direct("LETTER", Pt(718), Pt(718), Pt(130))
    /\ fnRes.classification = "A4"

\* C6 as stated: for every tolerance of the GUI's range 0..100 pt no
\* (width, height) matches both A4 and LETTER, and the exact LETTER page is
\* LETTER and the exact A4 page is A4 for every tolerance >= 0.
C6_NoAmbiguityForAnyTolerance ==
    Classified =>
        LET w == fnArgs.width_pt
            h == fnArgs.height_pt
            tol == fnArgs.tol_pt
            res == fnRes.classification
        IN  /\ (0 <= tol /\ tol <= Pt(100)) =>
                 ~(Matches("A4", w, h, tol) /\ Matches("LETTER", w, h, tol))
            /\ (tol >= 0 /\ w = LETTER_W /\ h = LETTER_H) => res = "LETTER"
            /\ (tol >= 0 /\ w = A4_W /\ h = A4_H) => res = "A4"

\* C6 amended: no (width, height) matches both A4 and LETTER while the
\* tolerance is below half the A4/LETTER height difference (24.94 pt); the
\* exact LETTER page is LETTER while the tolerance is below that difference
\* (49.89 pt) and A4 from there on; the exact A4 page is A4 for every
\* tolerance >= 0.
C6_NoAmbiguityBelowHalfHeightGap ==
    Classified =>
        LET w == fnArgs.width_pt
            h == fnArgs.height_pt
            tol == fnArgs.tol_pt
            res == fnRes.classification
        IN  /\ tol < HalfHeightGap =>
                 ~(Matches("A4", w, h, tol) /\ Matches("LETTER", w, h, tol))
            /\ (tol >= 0 /\ w = LETTER_W /\ h = LETTER_H) =>
                 res = IF tol < HeightGap THEN "LETTER" ELSE "A4"
            /\ (tol >= 0 /\ w = A4_W /\ h = A4_H) => res = "A4"

\* the exact LETTER page one grid step below the tolerance that makes it A4
C6_Witness ==
    /\ Classified
    /\ fnArgs = [width_pt |-> LETTER_W, height_pt |-> LETTER_H,
                 tol_pt |-> HeightGap - 1]
    /\ fnRes.classification = "LETTER"
    /\ ~Matches("A4", LETTER_W, LETTER_H, HeightGap - 1)

IsDirectResult(c) == c \in {"A4", "LETTER"}
IsRotatedResult(c) == c \in {"A4(rotated)", "LETTER(rotated)"}
StandardOf(c) ==
    IF c \in {"A4", "A4(rotated)"} THEN "A4"
    ELSE IF c \in {"LETTER", "LETTER(rotated)"} THEN "LETTER"
    ELSE None

\* C7: when exactly one of classify(W,H,tol), classify(H,W,tol) is a direct
\* match, both name the same standard and the other one is "(rotated)"; and
\* one is None exactly when the other is.
C7_SwapSymmetry ==
    Classified =>
        LET a == fnRes.classification
            b == classify_page_size(fnArgs.height_pt, fnArgs.width_pt, fnArgs.tol_pt)
        IN  /\ (IsDirectResult(a) # IsDirectResult(b)) =>
                 /\ StandardOf(a) = StandardOf(b)
                 /\ StandardOf(a) # None
                 /\ IsRotatedResult(a) # IsRotatedResult(b)
            /\ (a = None) <=> (b = None)

C7_Witness ==
    /\ Classified
    /\ fnArgs = [width_pt |-> A4_H - Pt(3), height_pt |-> A4_W + Pt(3),
                 tol_pt |-> Pt(3)]
    /\ fnRes.classification = "A4(rotated)"
    /\ classify_page_size(A4_W + Pt(3), A4_H - Pt(3), Pt(3)) = "A4"

\* C8: for every integer /Rotate (negative, not a multiple of 90) the result
\* is one of 0, 90, 180, 270; a missing or non-numeric /Rotate gives 0.
C8_RotationIsCanonical ==
    fn = "get_page_rotation_degrees" =>
        /\ fnRes.degrees \in {0, 90, 180, 270}
        /\ fnArgs.rotate.kind # "int" => fnRes.degrees = 0

C8_Witness ==
    /\ fn = "get_page_rotation_degrees"
    /\ fnArgs.rotate = IntRotate(-30)
    /\ fnRes.degrees = 0

\* C9: to_points(v, u) is v for pt, v*72/25.4 for mm, v*72/2.54 for cm (v in
\* hundredths, the result on the point grid), for zero and negative v too.
C9_ToPointsArithmetic ==
    (fn = "to_points" /\ fnArgs.unit \in {S_pt, S_mm, S_cm}) =>
        LET v == fnArgs.value
            u == fnArgs.unit
        IN  /\ fnRes.ok
            /\ u = S_pt => fnRes.v * 100 = v * GridPerPt
            /\ u = S_mm => fnRes.v * 254 = v * 72 * (GridPerPt \div 10)
            /\ u = S_cm => /\ fnRes.v % 100 = 0
                           /\ (fnRes.v \div 100) * 254 = v * 72 * (GridPerPt \div 100)

C9_Witness ==
    /\ fn = "to_points"
    /\ fnArgs = [value |-> -1050, unit |-> S_mm]
    /\ fnRes.ok
    /\ fnRes.v = -378000

\* C11: for u in {pt, mm, cm}, from_points(to_points(v, u), u) is v and
\* to_points(from_points(p, u), u) is p, exactly (the model's arithmetic is
\* exact, fractions included).
C11_RoundTrip ==
    /\ (fn = "to_points" /\ fnArgs.unit \in {S_pt, S_mm, S_cm}) =>
          /\ fnRes.ok
          /\ from_points(fnRes.v, fnArgs.unit) =
                [ok |-> TRUE, q |-> [num |-> fnArgs.value, den |-> 1]]
    /\ (fn = "from_points" /\ fnArgs.unit \in {S_pt, S_mm, S_cm}) =>
          /\ fnRes.ok
          /\ ToPointsOfFrac(fnRes.q, fnArgs.unit) =
                [ok |-> TRUE, q |-> [num |-> fnArgs.value_pt, den |-> 1]]

\* 10 pt and one grid step, in mm: not a whole number of hundredths
C11_Witness ==
    /\ fn = "from_points"
    /\ fnArgs = [value_pt |-> Pt(10) + 1, unit |-> S_mm]
    /\ fnRes.ok
    /\ fnRes.q = [num |-> 127001, den |-> 360]
    /\ ToPointsOfFrac(fnRes.q, S_mm).q.num = Pt(10) + 1

----------------------------------------------------------------------------
(* Unsupported units, in single calls and in insertion runs (SpecAll) *)

Unsupported(u) == NormUnit(u) \notin AcceptedUnits

ErrorIs(what) == error.kind = "ValueError" /\ error.what = what

\* validation lets the insertion reach the unit conversion
ValidationPasses ==
    /\ TargetInRange
    /\ params.paper_check = "strict" => \A i \in Scope : ~Unrecognized(i)

\* C10 as stated: every unit string other than pt, mm, cm makes to_points
\* fail with the error carrying that string, and an insertion with such a
\* unit or size_unit (its validation passing) ends in that error with no
\* output.
C10_FailsOutsidePtMmCm ==
    /\ (fn = "to_points" /\ fnArgs.unit \notin {S_pt, S_mm, S_cm}) =>
          /\ ~fnRes.ok
          /\ fnRes.unit = fnArgs.unit
    /\ ( /\ pc \in {"done", "failed"}
         /\ ValidationPasses
         /\ \/ params.unit \notin {S_pt, S_mm, S_cm}
            \/ params.size_unit \notin {S_pt, S_mm, S_cm} ) =>
          /\ pc = "failed"
          /\ ErrorIs("Unidad no soportada")
          /\ error.unit \in {params.unit, params.size_unit}
          /\ out_file = NoValue

\* C10 amended: to_points fails exactly for the unit strings whose
\* lower-cased, stripped form is none of pt, pts, point, points, mm, cm, and
\* the error carries that lower-cased, stripped form; an insertion with such
\* a unit or size_unit never makes a QR or overlay and never opens the
\* output, and when its validation passes it ends in that error, for unit
\* before size_unit.
C10_FailsOutsideAcceptedNormalisedUnits ==
    /\ fn = "to_points" =>
          /\ fnRes.ok <=> ~Unsupported(fnArgs.unit)
          /\ ~fnRes.ok =>
                /\ fnRes.kind = "ValueError"
                /\ fnRes.what = "Unidad no soportada"
                /\ fnRes.unit = NormUnit(fnArgs.unit)
    /\ (pc # "off" /\ (Unsupported(params.unit) \/ Unsupported(params.size_unit))) =>
          /\ NothingProduced
          /\ pc # "done"
          /\ (pc = "failed" /\ ValidationPasses) =>
                /\ ErrorIs("Unidad no soportada")
                /\ error.unit = IF Unsupported(params.unit)
                                THEN NormUnit(params.unit)
                                ELSE NormUnit(params.size_unit)
    /\ (pc = "failed" /\ ErrorIs("Unidad no soportada")) =>
          (Unsupported(params.unit) \/ Unsupported(params.size_unit))

\* size_unit "Px " rejected as "px" after x and y were converted
C10_Witness ==
    /\ pc = "failed"
    /\ params.size_unit = <<"P", "x", " ">>
    /\ ErrorIs("Unidad no soportada")
    /\ error.unit = <<"p", "x">>
    /\ x_pt # NoValue
    /\ size_pt = NoValue
    /\ out_file = NoValue

----------------------------------------------------------------------------
(* Properties of validate_pdf_pages inside the insertion runs (SpecValidate) *)

\* what the validator has said so far: the printed lines, then the text of
\* the validation error if it raised one
Diagnostics ==
    IF error.kind = "ValueError" /\ error.what = "paper"
    THEN Append(log, error.msg)
    ELSE log

SizeLines == { k \in 1..Len(Diagnostics) : Diagnostics[k].about = "size" }

\* the classification a size line reports
ReportedIn(line) == IF line.tag = "[INFO]" THEN line.detected ELSE None

\* the classification the validator reports for one page on its own
ReportedFor(page, p) ==
    LET v == ValidateOne(<<page>>, 1, p) IN
    IF v.raised # NoValue THEN None ELSE ReportedIn(v.lines[Len(v.lines)])

RotateSamples ==
    { [kind |-> "missing"], IntRotate(0), IntRotate(90), IntRotate(180),
      IntRotate(270), IntRotate(-90), IntRotate(45) }

\* the dimensions compared are the mediabox's, swapped in visible mode when
\* the rotation is 90 or 270; in mediabox mode the report is that of the
\* same page under any other /Rotate
DimensionsRule(line) ==
    LET page == reader[line.page]
        rot == RotationOf(line.page)
    IN  /\ line.rot = rot
        /\ <<line.w_mb, line.h_mb>> = <<page.w, page.h>>
        /\ <<line.w_chk, line.h_chk>> =
              IF params.paper_dim_mode = "visible" /\ rot \in {90, 270}
              THEN <<page.h, page.w>>
              ELSE <<page.w, page.h>>
        /\ ReportedIn(line) =
              classify_page_size(line.w_chk, line.h_chk, params.tol_pt)
        /\ params.paper_dim_mode = "mediabox" =>
              \A r \in RotateSamples :
                  ReportedFor([page EXCEPT !.rotate = r], params) = ReportedIn(line)

\* the mediabox of the line's page matches standard name directly and the
\* page is turned by 90 or 270, in visible mode
TurnedStandard(line, name) ==
    /\ params.paper_dim_mode = "visible"
    /\ RotationOf(line.page) \in {90, 270}
    /\ Direct(name, reader[line.page].w, reader[line.page].h, params.tol_pt)

\* C12 as stated: the dimensions rule, and every page whose mediabox matches
\* a standard S directly and whose rotation is 90 or 270 is reported as
\* S(rotated) in visible mode, whatever the tolerance.
C12_TurnedStandardIsRotated ==
    \A k \in SizeLines :
        /\ DimensionsRule(Diagnostics[k])
        /\ \A name \in {"A4", "LETTER"} :
              TurnedStandard(Diagnostics[k], name) =>
                  ReportedIn(Diagnostics[k]) = name \o "(rotated)"

\* C12 amended: the dimensions rule, and such a page is reported as
\* S(rotated) while the tolerance is below half the A4/LETTER height
\* difference (24.94 pt); above it the report is the first match of
\* (height, width) in the order A4, A4(rotated), LETTER, LETTER(rotated).
C12_TurnedStandardIsRotatedBelowHalfGap ==
    \A k \in SizeLines :
        /\ DimensionsRule(Diagnostics[k])
        /\ \A name \in {"A4", "LETTER"} :
              (TurnedStandard(Diagnostics[k], name) /\ params.tol_pt < HalfHeightGap) =>
                  ReportedIn(Diagnostics[k]) = name \o "(rotated)"

\* the LETTER page stored with /Rotate 90, at the default tolerance
C12_Witness ==
    /\ pc = "done"
    /\ params.paper_dim_mode = "visible"
    /\ params.tol_pt = Pt(3)
    /\ \E k \in SizeLines :
          /\ TurnedStandard(Diagnostics[k], "LETTER")
          /\ <<Diagnostics[k].w_chk, Diagnostics[k].h_chk>> = <<LETTER_H, LETTER_W>>
          /\ ReportedIn(Diagnostics[k]) = "LETTER(rotated)"

LinesFor(i, about) ==
    { k \in 1..Len(log) : log[k].page = i /\ log[k].about = about }

ValidationDone == pc \notin {"start", "validate"}

\* C13: in warn mode, once validation is over, every page in scope has
\* exactly one size line ([INFO] if it is recognized, [ADVERTENCIA] if not)
\* and one rotation warning exactly when its rotation is not 0; a page out of
\* scope has no line; a one-page A4 document without rotation gives one
\* [INFO] line and nothing else (tolerance not negative).
C13_OneLinePerPageInWarn ==
    (params.paper_check = "warn" /\ TargetInRange /\ ValidationDone) =>
        /\ \A k \in 1..Len(log) : log[k].page \in Scope
        /\ \A i \in Scope :
              /\ Cardinality(LinesFor(i, "size")) = 1
              /\ \A k \in LinesFor(i, "size") :
                    log[k].tag = IF Unrecognized(i) THEN "[ADVERTENCIA]" ELSE "[INFO]"
              /\ Cardinality(LinesFor(i, "Rotate")) = IF RotationOf(i) # 0 THEN 1 ELSE 0
              /\ \A k \in LinesFor(i, "Rotate") : log[k].tag = "[ADVERTENCIA]"
        /\ ( /\ Len(reader) = 1
             /\ <<reader[1].w, reader[1].h>> = <<A4_W, A4_H>>
             /\ RotationOf(1) = 0
             /\ params.tol_pt >= 0 ) =>
              /\ Len(log) = 1
              /\ log[1].tag = "[INFO]"
              /\ log[1].detected = "A4"

\* three pages, the target the first: the turned LETTER page and the
\* unrecognized page after it give three lines, the target one
C13_Witness ==
    /\ pc = "done"
    /\ params.paper_check = "warn"
    /\ params.check_all_pages
    /\ params.page_number = 1
    /\ Len(reader) = 3
    /\ RotationOf(1) = 0 /\ ~Unrecognized(1)
    /\ RotationOf(2) = 90 /\ ~Unrecognized(2)
    /\ RotationOf(3) = 0 /\ Unrecognized(3)
    /\ Len(log) = 4
    /\ log[4].tag = "[ADVERTENCIA]" /\ log[4].about = "size"

InPageOrder(lines) ==
    \A k \in 1..(Len(lines) - 1) : lines[k].page <= lines[k + 1].page

\* C14: the validator's lines (its error text included) come in page order,
\* a line is only ever added while nothing has been produced (no QR, no
\* overlay, output not opened), and none is added once validation is over.
C14_DiagnosticsInOrderBeforeMerge ==
    [][ /\ InPageOrder(Diagnostics')
        /\ Diagnostics' # Diagnostics =>
              /\ pc \in {"start", "validate"}
              /\ NothingProduced /\ NothingProduced'
              /\ writer' = <<>>
        /\ ValidationDone => Diagnostics' = Diagnostics ]_vars

\* every page of a three-page document was reported before the output was
\* written
C14_Witness ==
    /\ pc = "done"
    /\ out_file # NoValue
    /\ params.check_all_pages
    /\ Len(reader) = 3
    /\ \A i \in 1..3 : LinesFor(i, "size") # {}
    /\ \E i \in 1..3 : LinesFor(i, "Rotate") # {}

SeqRange(q) == { q[k] : k \in 1..Len(q) }

\* the first page of the scope that does not classify
FirstUnrecognized ==
    CHOOSE i \in Scope :
        Unrecognized(i) /\ \A j \in Scope : Unrecognized(j) => i <= j

\* the size warning warn mode prints for page i
WarnLineFor(i) ==
    LET v == ValidateOne(reader, i, [params EXCEPT !.paper_check = "warn"])
    IN  v.lines[Len(v.lines)]

\* C18: in strict mode over all pages, with p the first unrecognized page:
\* no line of a page after p is ever printed, the run never gets past
\* validation, and when it has failed the error is the warn-mode warning of p
\* with [ERROR] for [ADVERTENCIA], every page before p has its size line
\* and p and the pages after it are still to be examined; in warn mode every
\* page of the scope gets its size line.
C18_StrictAbortsAtFirstUnrecognized ==
    /\ ( /\ params.paper_check = "strict"
         /\ params.check_all_pages
         /\ TargetInRange
         /\ \E i \in Scope : Unrecognized(i) ) =>
          LET p == FirstUnrecognized IN
          /\ \A k \in 1..Len(log) : log[k].page <= p
          /\ LinesFor(p, "size") = {}
          /\ pc \in {"start", "validate", "failed"}
          /\ pc = "failed" =>
                /\ ErrorIs("paper")
                /\ error.msg = [WarnLineFor(p) EXCEPT !.tag = "[ERROR]"]
                /\ WarnLineFor(p).tag = "[ADVERTENCIA]"
                /\ \A i \in 1..(p - 1) : Cardinality(LinesFor(i, "size")) = 1
                /\ pages_to_check = Range(p, Len(reader))
    /\ (params.paper_check = "warn" /\ TargetInRange /\ ValidationDone) =>
          \A i \in Scope : LinesFor(i, "size") # {}

\* pages 2 and 3 unrecognized, page 2 turned: the run fails on page 2 after
\* the line of page 1 and the rotation warning of page 2
C18_Witness ==
    /\ pc = "failed"
    /\ params.paper_check = "strict"
    /\ params.check_all_pages
    /\ Len(reader) = 3
    /\ ~Unrecognized(1) /\ Unrecognized(2) /\ Unrecognized(3)
    /\ RotationOf(2) = 180
    /\ ErrorIs("paper")
    /\ error.msg.page = 2
    /\ Len(log) = 2
    /\ log[2] = RotationLine(2, 180)

\* the pages the validator has examined: those with a size line or the
\* size error
ExaminedPages == { Diagnostics[k].page : k \in SizeLines }

\* C19: the pages examined and still to examine are together exactly the
\* scope ({page_number}, or 1..pageCount with check_all_pages); when the
\* validator has returned, the examined pages are the scope; in strict mode
\* without check_all_pages every diagnostic is about the target page and a
\* recognized target means no validation error.
C19_ScopeIsTargetOrAllPages ==
    (TargetInRange /\ pc # "start") =>
        /\ Scope = IF params.check_all_pages
                   THEN 1..Len(reader) ELSE {params.page_number}
        /\ { Diagnostics[k].page : k \in 1..Len(Diagnostics) } \subseteq Scope
        /\ pc = "validate" => ExaminedPages \cup SeqRange(pages_to_check) = Scope
        /\ (ValidationDone /\ ~ErrorIs("paper")) => ExaminedPages = Scope
        /\ (params.paper_check = "strict" /\ ~params.check_all_pages) =>
              /\ \A k \in 1..Len(Diagnostics) :
                    Diagnostics[k].page = params.page_number
              /\ ~Unrecognized(params.page_number) => ~ErrorIs("paper")

\* strict, target only: the unrecognized pages around the recognized target
\* leave no trace
C19_Witness ==
    /\ pc = "done"
    /\ params.paper_check = "strict"
    /\ ~params.check_all_pages
    /\ Len(reader) = 3
    /\ params.page_number = 2
    /\ Unrecognized(1) /\ ~Unrecognized(2) /\ Unrecognized(3)
    /\ ExaminedPages = {2}

\* the output of a successful insertion, from the document, the URL, the
\* target page, the position and the size alone
ExpectedOutput ==
    LET ov == build_overlay_pdf(
                  reader[params.page_number].w, reader[params.page_number].h,
                  generate_qr_png_bytes(params.url),
                  to_points(params.x_value, params.unit).v,
                  to_points(params.y_value, params.unit).v,
                  to_points(params.size_value, params.size_unit).v)
    IN  [pages |-> [i \in 1..Len(reader) |->
                       [src |-> i, page |-> reader[i],
                        merged |-> IF i = params.page_number THEN <<ov>> ELSE <<>>]]]

\* C20: in warn mode the validator never ends the run, and how the run ends
\* is fixed by the document, URL, target page, position, size and units: with
\* the page in range and the units supported it succeeds and writes
\* ExpectedOutput, otherwise it fails with the range or unit error and writes
\* nothing, for every tol_pt, paper_dim_mode, check_all_pages, page size and
\* rotation.
C20_WarnNeverChangesOutcome ==
    params.paper_check = "warn" =>
        /\ ~ErrorIs("paper")
        /\ Terminated =>
              IF TargetInRange /\ UnitsSupported
              THEN /\ pc = "done"
                   /\ error = NoError
                   /\ out_file = ExpectedOutput
              ELSE /\ pc = "failed"
                   /\ out_file = NoValue
                   /\ IF TargetInRange
                      THEN ErrorIs("Unidad no soportada")
                      ELSE ErrorIs("page_number fuera de rango")

\* every page unrecognized at 50 pt in mediabox mode, all of them checked
C20_Witness ==
    /\ pc = "done"
    /\ params.paper_check = "warn"
    /\ params.tol_pt = Pt(50)
    /\ params.paper_dim_mode = "mediabox"
    /\ params.check_all_pages
    /\ Len(reader) = 2
    /\ \A i \in Scope : Unrecognized(i)
    /\ RotationOf(1) = 180
    /\ out_file = ExpectedOutput

----------------------------------------------------------------------------
(* Properties of the front-ends (SpecFront) *)

\* the front-end converted a top-left y before calling the core
ConvertedVisualY ==
    \/ front.kind = "web" /\ front.stage = "insert"
    \/ front.kind = "gui" /\ front.stage = "insert" /\ front.conversion = "done"

\* the y and the side the user entered, in points
YVisualTop == to_points(front.form.place[2], front.form.units[1]).v
SidePt == to_points(front.form.place[3], front.form.units[2]).v

\* C15 as stated: whenever a front-end converts a visual y for a target
\* page in range, the y the core receives, in points, is the raw mediabox
\* height of the target page minus the visual y minus the side, whatever the
\* page's stored rotation.
C15_NativeYFromMediaboxHeight ==
    (ConvertedVisualY /\ TargetInRange) =>
        /\ params.unit = S_pt
        /\ to_points(params.y_value, params.unit).v =
              reader[params.page_number].h - YVisualTop - SidePt

----------------------------------------------------------------------------
(* Properties of the web application's threads (SpecWeb) *)

\* thread h is between /apply's existence check and the return of
\* insert_qr_into_pdf, for token t
InFlight(h, t) ==
    /\ handlers[h].op = "apply"
    /\ handlers[h].token = t
    /\ handlers[h].pc \in {"pagesize", "insert", "merge", "writing"}

\* thread h is inside insert_qr_into_pdf for token t
Inserting(h, t) ==
    /\ handlers[h].op = "apply"
    /\ handlers[h].token = t
    /\ handlers[h].pc \in {"insert", "merge", "writing"}

\* thread h has <token>_out.pdf open for writing
Writing(h, t) == Inserting(h, t) /\ handlers[h].pc = "writing"

\* thread h has <token>_out.pdf open for /download
Reading(h, t) ==
    /\ handlers[h].op = "download"
    /\ handlers[h].token = t
    /\ handlers[h].pc \in {"cleanup", "stream"}

\* C16 as stated: no step of the cleanup worker or of the admin cleanup
\* unlinks an existing upload or output of a token while an insertion for
\* that token is in flight.
C16_NoCleanupDuringInsertion ==
    [][ \A c \in Cleaners, t \in Tokens :
          ( /\ cleaners[c].pc = "unlink"
            /\ cleaners[c].victim = t
            /\ cleaners'[c].pc # "unlink"
            /\ FileIn(CleanedDirs[cleaners[c].dir], t) # "absent" ) =>
              ~(\E h \in Handlers : InFlight(h, t)) ]_vars

\* C17 as stated: never two threads inside insert_qr_into_pdf for the same
\* token, and never a /download with the output open while an insertion
\* has it open for writing.
C17_InsertionsSerialized ==
    \A t \in Tokens :
        /\ Cardinality({ h \in Handlers : Inserting(h, t) }) <= 1
        /\ ~(\E d \in Handlers, a \in Handlers : Reading(d, t) /\ Writing(a, t))

----------------------------------------------------------------------------
(* Further properties of the pure functions (SpecFn) *)

\* C21 as stated: a negative tolerance gives, for every (width, height),
\* what tolerance 0 gives (classify_page_size has no error result, so the
\* other branch of the claim, rejecting the call, never applies).
C21_NegativeToleranceAsZero ==
    (Classified /\ fnArgs.tol_pt < 0) =>
        fnRes.classification =
            classify_page_size(fnArgs.width_pt, fnArgs.height_pt, 0)

\* distance between two angles of 0..359 around the circle
CircularDistance(a, b) ==
    LET d == Abs(a - b) IN IF d > 180 THEN 360 - d ELSE d

RotationCalled == fn = "get_page_rotation_degrees" /\ fnArgs.rotate.kind = "int"

\* C22: for an integer /Rotate r the result is r mod 360 when that is one of
\* 0, 90, 180, 270; otherwise it is a multiple of 90 in 0..270 nearest to
\* r mod 360 around the circle, at most 45 degrees away; r + 360 and r - 360
\* give the same result, and the function maps its result to itself.
C22_RotationNearestMultipleOf90 ==
    RotationCalled =>
        LET r == fnArgs.rotate.v
            m == r % 360
            res == fnRes.degrees
        IN  /\ m \in {0, 90, 180, 270} => res = m
            /\ res \in {0, 90, 180, 270}
            /\ CircularDistance(res, m) <= 45
            /\ \A k \in {0, 90, 180, 270} :
                  CircularDistance(res, m) <= CircularDistance(k, m)
            /\ get_page_rotation_degrees(IntRotate(r + 360)) = res
            /\ get_page_rotation_degrees(IntRotate(r - 360)) = res
            /\ get_page_rotation_degrees(IntRotate(res)) = res

\* -50 is 310 mod 360, nearest to 270; its period 310 + 360 - 360 and the
\* spec's example 450 are reached through the periodicity
C22_Witness ==
    /\ RotationCalled
    /\ fnArgs.rotate.v = -50
    /\ fnRes.degrees = 270
    /\ get_page_rotation_degrees(IntRotate(450)) = 90
    /\ get_page_rotation_degrees(IntRotate(315)) = 0

----------------------------------------------------------------------------
(* Further properties of the insertion runs (Spec) *)

\* C23: no step of insert_qr_into_pdf or of validate_pdf_pages changes a
\* field of the InsertQRParams it was given, whether the run ends with the
\* output written or with an error.
C23_ParamsNeverChange ==
    [][params' = params]_vars

\* a run that went through every step, with units the converter had to
\* normalize, and still holds the request as it was given
C23_Witness ==
    /\ pc = "done"
    /\ out_file # NoValue
    /\ params.unit = S_mm
    /\ params.size_unit = S_cm
    /\ params.page_number = 2
    /\ params.paper_check = "strict"

----------------------------------------------------------------------------
(* Further properties of the front-ends (SpecFront) *)

\* run_insert has called insert_qr_into_pdf with the visual-coordinates box
\* checked
GuiCalledVisual ==
    /\ front.kind = "gui"
    /\ front.stage = "insert"
    /\ front.form.visual_coords_chk

\* C24 as stated: with the visual-coordinates box checked, every call of
\* insert_qr_into_pdf made by run_insert carries unit = pt and
\* y = pageHeight - yTop - side, also when the page height is unknown or
\* the conversion raised an error.
C24_GuiAlwaysConverts ==
    GuiCalledVisual =>
        /\ front.conversion = "done"
        /\ params.unit = S_pt
        /\ params.y_value =
              InPt(front.page_h_pt_visible.v
                     - to_points(front.form.place[2], front.form.units[1]).v
                     - to_points(front.form.place[3], front.form.units[2]).v)

----------------------------------------------------------------------------
(* Properties of the admin cleanup endpoints (SpecAdmin) *)

AdminClientIp == get_client_ip(fnArgs.cfg, fnArgs.req)

\* C25 as stated: cleanup_storage_once runs only for a request whose client
\* IP is in admin_allowed_ips and whose key equals admin_key, whatever the
\* configuration; any other request is answered 403 with nothing deleted
\* and no cleanup begun.
C25_AdminCleanupNeedsIpAndKey ==
    [][ /\ fnRes'.status # 403 =>
              /\ AdminClientIp \in fnArgs.cfg.admin_allowed_ips
              /\ ProvidedKey(fnArgs.req) = fnArgs.cfg.admin_key
        /\ fnRes'.status = 403 =>
              UNCHANGED <<uploads, outputs, cleaners>> ]_vars

----------------------------------------------------------------------------
(* Properties of /download and its per-token cleanup (SpecDownload) *)

\* the step in which thread h runs cleanup_token_artifacts
CleanupStep(h) ==
    /\ handlers[h].op = "download"
    /\ handlers[h].pc = "cleanup"
    /\ handlers'[h].pc = "stream"

\* the step in which an /apply for token t opens <t>_out.pdf for writing
ApplyOpensOutput(t) ==
    \E h \in Handlers :
        /\ handlers[h].op = "apply"
        /\ handlers[h].token = t
        /\ handlers[h].pc = "merge"
        /\ handlers'[h].pc = "writing"

\* C26: a thread comes to the per-token cleanup only from send_file, which
\* found the output; the cleanup removes <token>_out.pdf and the previews
\* of that token and leaves the token's upload and every file of the other
\* tokens as they were; an output that is gone comes back only when an
\* /apply for the token writes it, and until then /download answers 404
\* and changes no file.
C26_DownloadCleanupFrame ==
    [][ /\ \A h \in Handlers :
              /\ (handlers'[h].pc = "cleanup" /\ handlers[h].pc # "cleanup") =>
                    /\ handlers[h].op = "download"
                    /\ handlers[h].pc = "send"
                    /\ outputs[handlers[h].token] # "absent"
              /\ CleanupStep(h) =>
                    /\ outputs'[handlers[h].token] = "absent"
                    /\ previews'[handlers[h].token] = "absent"
                    /\ uploads' = uploads
                    /\ \A u \in DownloadTokens \ {handlers[h].token} :
                          /\ outputs'[u] = outputs[u]
                          /\ previews'[u] = previews[u]
              /\ ( /\ handlers[h].op = "download"
                   /\ handlers[h].pc = "exists"
                   /\ handlers'[h] # handlers[h]
                   /\ outputs[handlers[h].token] = "absent" ) =>
                    /\ handlers'[h] = IdleHandler
                    /\ UNCHANGED <<uploads, outputs, previews>>
        /\ \A t \in DownloadTokens :
              (outputs[t] = "absent" /\ outputs'[t] # "absent") => ApplyOpensOutput(t) ]_vars

\* the cleanup for t1 has run while t2 has an output and a preview: t1's
\* output and preview are gone, its upload and t2's files are there
C26_Witness ==
    /\ \E h \in Handlers :
          /\ handlers[h].op = "download"
          /\ handlers[h].token = "t1"
          /\ handlers[h].pc = "stream"
    /\ outputs["t1"] = "absent"
    /\ previews["t1"] = "absent"
    /\ uploads["t1"] = "fresh"
    /\ outputs["t2"] = "fresh"
    /\ previews["t2"] = "fresh"

\* the insertion fails in this step
FailsNow == pc # "failed" /\ pc' = "failed"

StrictMismatch ==
    params.paper_check = "strict" /\ \E i \in Scope : Unrecognized(i)

\* C27: an insertion that fails, fails with the page-out-of-range error at
\* its first step when the page is out of range, whatever else is wrong;
\* otherwise with the strict paper error during validation, before any
\* unit was converted, when a page in scope is unrecognized, whatever the
\* units are; otherwise with the unsupported-unit error at the conversion,
\* when every page in scope has its size line and no QR was generated.  In
\* each case nothing was produced and the output was not opened.
C27_FatalErrorPrecedence ==
    [][ FailsNow =>
          /\ NothingProduced'
          /\ error'.kind = "ValueError"
          /\ IF ~TargetInRange
             THEN /\ pc = "start"
                  /\ error'.what = "page_number fuera de rango"
                  /\ log' = <<>>
             ELSE IF StrictMismatch
             THEN /\ pc = "validate"
                  /\ error'.what = "paper"
                  /\ x_pt' = NoValue /\ y_pt' = NoValue /\ size_pt' = NoValue
             ELSE /\ pc = "convert"
                  /\ error'.what = "Unidad no soportada"
                  /\ ~UnitsSupported
                  /\ \A i \in Scope : Cardinality(LinesFor(i, "size")) = 1
                  /\ log' = log ]_vars

\* a strict run on an unrecognized page with an unsupported unit: the paper
\* error, not the unit error
C27_Witness ==
    /\ pc = "failed"
    /\ TargetInRange
    /\ StrictMismatch
    /\ ~UnitsSupported
    /\ ErrorIs("paper")
    /\ x_pt = NoValue
    /\ NothingProduced

\* C28 as stated: whatever the user did in the window, the cached page
\* height is None or the visible height of the page selected in the spin
\* box, in the PDF now entered in the input field.
C28_CachedHeightNeverStale ==
    front.kind = "gui" =>
        \/ front.page_h_pt_visible = NoValue
        \/ /\ front.page_spin <= Len(reader)
           /\ front.page_h_pt_visible.v = PageRect(reader[front.page_spin])[2]

----------------------------------------------------------------------------
(* Properties of the rectangle and the X/Y fields (SpecRect) *)

\* C29: _syncing_from_rect is true exactly while a call of on_rect_moved is
\* in progress past its guards, and false once it has returned, also when
\* it raised; while it is true no step repositions the rectangle; and in
\* the handling of a drag the program never moves the rectangle itself.
C29_GuardBreaksRectFieldCycle ==
    [][ /\ front'.syncing <=>
             \E k \in 1..Len(front'.stack) : front'.stack[k].f = "on_rect_moved"
        /\ front'.stack = <<>> => ~front'.syncing
        /\ front.syncing => <<front'.rx, front'.ry>> = <<front.rx, front.ry>>
        /\ front'.event = "drag" => front'.moves = 0 ]_vars

\* inside a drag that changed the X field: on_rect_moved is about to set Y
\* and the nested _refresh_rect_only is stopped by the guard
C29_Witness ==
    /\ front.kind = "rect"
    /\ front.event = "drag"
    /\ front.syncing
    /\ Len(front.stack) = 2
    /\ front.stack[1] = [f |-> "on_rect_moved", pc |-> "set_y"]
    /\ front.stack[2] = [f |-> "_refresh_rect_only", pc |-> "entry"]
    /\ front.rx = 1234567
    /\ front.x = 61728
    /\ RectOfFields(front)[1] # front.rx

----------------------------------------------------------------------------
(* The rotation warning and the strict abort (SpecValidate) *)

\* the validator raised its error
PaperError == error.kind = "ValueError" /\ error.what = "paper"

\* what has been printed when the validator raised for page p: the lines of
\* the pages of the scope before p, and of p its rotation warning only
PrintedBeforeAbort ==
    LET p == error.msg.page IN
    /\ \A k \in 1..Len(log) : log[k].page \in Scope /\ log[k].page <= p
    /\ \A j \in Scope :
          j < p =>
             /\ Cardinality(LinesFor(j, "size")) = 1
             /\ \A k \in LinesFor(j, "size") : log[k].tag = "[INFO]"
             /\ Cardinality(LinesFor(j, "Rotate")) = IF RotationOf(j) # 0 THEN 1 ELSE 0
    /\ LinesFor(p, "size") = {}
    /\ Cardinality(LinesFor(p, "Rotate")) = IF RotationOf(p) # 0 THEN 1 ELSE 0
    /\ RotationOf(p) # 0 =>
          /\ log # <<>>
          /\ log[Len(log)].page = p
          /\ log[Len(log)].about = "Rotate"
          /\ log[Len(log)].tag = "[ADVERTENCIA]"

\* C30: a page's rotation warning comes before its size line (the error
\* text included); the step that raises the validation error prints the
\* failing page's rotation warning when its rotation is not 0 and nothing
\* else; and when the validator has raised, in strict mode only, what was
\* printed is exactly the lines of the earlier pages in scope plus that
\* rotation warning.
C30_RotationWarningFirstAlsoOnAbort ==
    [][ /\ \A k1, k2 \in 1..Len(Diagnostics') :
              ( /\ Diagnostics'[k1].page = Diagnostics'[k2].page
                /\ Diagnostics'[k1].about = "Rotate"
                /\ Diagnostics'[k2].about = "size" ) => k1 < k2
        /\ PaperError' =>
              /\ params.paper_check = "strict"
              /\ error'.msg.page \in Scope
              /\ Unrecognized(error'.msg.page)
              /\ error'.msg.tag = "[ERROR]"
              /\ PrintedBeforeAbort'
              /\ ~PaperError =>
                    Len(log') = Len(log) +
                                IF RotationOf(error'.msg.page) # 0 THEN 1 ELSE 0 ]_vars

\* strict mode over all pages: the second page is turned and does not
\* classify; the first page's line and the second page's rotation warning
\* were printed, then the error
C30_Witness ==
    /\ pc = "failed"
    /\ PaperError
    /\ params.paper_check = "strict"
    /\ params.check_all_pages
    /\ Len(reader) >= 2
    /\ error.msg.page = 2
    /\ RotationOf(2) # 0
    /\ Len(log) = IF RotationOf(1) # 0 THEN 3 ELSE 2
    /\ log[Len(log)].page = 2 /\ log[Len(log)].about = "Rotate"

====
